---------------------------- MODULE Spec2Model ----------------------------
(***************************************************************************)
(* xiflash: in-system programming of a parallel flash ROM through the      *)
(* JEDEC software command protocol.  The model follows version 0.5 of the  *)
(* utility (rom_identify, rom_erase_page, rom_program_page, rom_program,   *)
(* rom_verify, main) together with a simulated flash device that decodes   *)
(* the command sequences written to it.                                    *)
(*                                                                         *)
(* Memory is addressed as on the 8088: a 16-bit segment and a 16-bit       *)
(* offset give the 20-bit linear address 16*segment + offset.  The flash   *)
(* content is kept as the list of the write bursts and sector erases the   *)
(* chip accepted, newest last, over the content it had before the run.     *)
(***************************************************************************)
EXTENDS Integers, Sequences, FiniteSets, TLC

(* ------------------------------------------------------------------ *)
(* Bounds of the model                                                  *)
(* ------------------------------------------------------------------ *)

\* image sizes of 1..MaxSmallPages pages of the smallest page size are tried
MaxSmallPages == 3
\* a run programs at most MaxPages pages (larger images are left out)
MaxPages == 8

(* ------------------------------------------------------------------ *)
(* Program constants                                                    *)
(* ------------------------------------------------------------------ *)

NUM_DEVICES == 5
DEFAULT_ROM_SIZE == 32768
PARAGRAPH == 16
SEG_MOD == 65536
LINEAR_MOD == 1048576
UINT_MOD == 65536

\* a faulty variant of eeproms: the last entry repeats the ids of the one
\* before it and has a page size that is no power of two
eeproms_SharedIds ==
    (0 :> [vendor_id |-> \h01, device_id |-> \h20, page_size |-> 16384,
           need_erase |-> 1, page_write |-> 0]) @@
    (1 :> [vendor_id |-> \h1F, device_id |-> \hD5, page_size |-> 128,
           need_erase |-> 0, page_write |-> 1]) @@
    (2 :> [vendor_id |-> \hDA, device_id |-> \hC1, page_size |-> 128,
           need_erase |-> 0, page_write |-> 1]) @@
    (3 :> [vendor_id |-> \hBF, device_id |-> \h07, page_size |-> 128,
           need_erase |-> 0, page_write |-> 1]) @@
    (4 :> [vendor_id |-> \hBF, device_id |-> \h07, page_size |-> 4096 + 512,
           need_erase |-> 1, page_write |-> 0])

\* the registry of supported devices, indexed 0 .. NUM_DEVICES-1 (the same
\* five entries in every version)
eeproms ==
    (0 :> [vendor_id |-> \h01, device_id |-> \h20, page_size |-> 16384,
           need_erase |-> 1, page_write |-> 0]) @@
    (1 :> [vendor_id |-> \h1F, device_id |-> \hD5, page_size |-> 128,
           need_erase |-> 0, page_write |-> 1]) @@
    (2 :> [vendor_id |-> \hDA, device_id |-> \hC1, page_size |-> 128,
           need_erase |-> 0, page_write |-> 1]) @@
    (3 :> [vendor_id |-> \hBF, device_id |-> \h07, page_size |-> 128,
           need_erase |-> 0, page_write |-> 1]) @@
    (4 :> [vendor_id |-> \hBF, device_id |-> \hB5, page_size |-> 4096,
           need_erase |-> 1, page_write |-> 0])

\* the two command-address pairs rom_identify tries
PAIR_5555 == <<\h5555, \h2AAA>>
PAIR_555 == <<\h555, \h2AA>>

VARIABLES
    \* ---- command line and image file (fixed by Init) ----
    mode,           \* subset of {"r", "p", "v", "c"}
    opt_a,          \* segment given with -a, or -1 when the option is absent
    opt_s,          \* size given with -s, or -1 when the option is absent
    file_size,      \* size of the input file in bytes
    img,            \* which image content the file holds
    \* ---- the simulated device (environment) ----
    dev,            \* what the chip is and how it answers
    idmode,         \* TRUE while the chip is in software-ID mode
    flash,          \* the writes and erases the chip accepted, newest last
    \* ---- program state ----
    pc,             \* position in main / rom_program
    rom_seg,        \* main's rom_seg
    file_seg,       \* main's file_seg, the segment of the file buffer
    rom_size,
    cur_seg,       \* rom_program's rom_seg, advanced page by page
    cur_fseg,      \* rom_program's file_seg, advanced page by page
    rom_start,      \* rom_program's command window
    eeprom_index,   \* result of the last rom_identify, -1 when none
    cmd_addr1,
    cmd_addr2,
    page,
    intr,           \* TRUE while maskable interrupts are enabled
    bus,            \* bus accesses of the step of rom_program made last
    hist,           \* one record per completed step of rom_program
    out,            \* messages printed so far
    exit_code,      \* -1 while running, else the process exit code
    diff,           \* rom_verify's difference count, -1 before it ran
    \* ---- version 0.2 only: calibrate_delay ----
    start_time,     \* clock() before the calibration loop
    end_time,       \* clock() after it
    loops_per_1ms   \* the calibrated loop count of delay()

vars == <<mode, opt_a, opt_s, file_size, img, dev, idmode, flash, pc, rom_seg,
          file_seg, rom_size, cur_seg, cur_fseg, rom_start, eeprom_index, cmd_addr1, cmd_addr2,
          page, intr, bus, hist, out, exit_code, diff, start_time, end_time,
          loops_per_1ms>>

(* ------------------------------------------------------------------ *)
(* Arithmetic of the 8088                                               *)
(* ------------------------------------------------------------------ *)

\* a faulty variant of Min: the second argument whatever the first
Min_Second(a, b) == b

Min(a, b) == IF a < b THEN a ELSE b

\* a __segment is 16 bits wide: additions wrap
SegAdd(seg, n) == (seg + n) % SEG_MOD

\* seg:>off as the 20-bit address the bus sees
Linear(seg, off) == (PARAGRAPH * seg + off) % LINEAR_MOD


(* ------------------------------------------------------------------ *)
(* The image file and the file buffer                                   *)
(* ------------------------------------------------------------------ *)

\* segment halloc() returned for the file buffer (its offset is zero)
FILE_SEG0 == \h2000

\* byte o of the image file; image 0 is blank (all 0xFF)
FileByte(o) == IF img = 0 THEN \hFF ELSE (o * 7 + img) % 256

\* byte at distance o from the start of the file buffer: the file's bytes,
\* then the zeroes halloc() left behind them
BufByte(o) == IF o >= 0 /\ o < file_size THEN FileByte(o) ELSE 0

\* distance of seg:>off from the start of the file buffer
BufOffset(seg, off) == PARAGRAPH * ((seg - FILE_SEG0) % SEG_MOD) + off

(* ------------------------------------------------------------------ *)
(* The simulated flash device                                           *)
(* ------------------------------------------------------------------ *)

\* index of a chip that is in no registry entry
UNKNOWN_CHIP == NUM_DEVICES

\* vendor and device id a chip answers with in software-ID mode
ChipId(c) ==
    IF c \in DOMAIN eeproms
    THEN <<eeproms[c].vendor_id, eeproms[c].device_id>>
    ELSE <<\hC2, \h11>>

\* sector (page) size of the chip itself
ChipPageSize(c) == IF c \in DOMAIN eeproms THEN eeproms[c].page_size ELSE 128

\* the chip is mapped into the 64 KiB windows starting at the segments dev.segs
InChip(a) == \E s \in dev.segs : PARAGRAPH * s <= a /\ a < PARAGRAPH * s + 65536

\* address the chip decodes for a write at linear address a, -1 outside the chip
ChipOff(a) ==
    IF InChip(a)
    THEN LET s == CHOOSE s \in dev.segs : PARAGRAPH * s <= a /\ a < PARAGRAPH * s + 65536
         IN  a - PARAGRAPH * s
    ELSE -1

\* content of the ROM before the run: the two bytes every window starts
\* with are dev.resting, the rest is a fixed pattern
RomInit(a) ==
    IF a % 65536 = 0 THEN dev.resting[1]
    ELSE IF a % 65536 = 1 THEN dev.resting[2]
    ELSE (a * 5 + 1) % 256

\* conventional memory: a write there latches whatever was written before it
RAM_TOP == \hA0000
InRam(a) == a < RAM_TOP

\* a data byte written to linear address a comes to be held there: in RAM
\* always, in the chip when the chip took the command before it (taken) and
\* the cell is not stuck, elsewhere never
Latches(a, taken) == InRam(a) \/ (taken /\ InChip(a) /\ a \notin dev.stuck)

\* write w of the write list reaches linear address a: a lies in the w.n
\* bytes from w.seg:>0 and the byte latched (data) or lies in the chip (erase)
Reaches(w, a) ==
    /\ (a - Linear(w.seg, 0)) % LINEAR_MOD < w.n
    /\ IF w.kind = "data" THEN Latches(a, w.taken) ELSE InChip(a)

\* byte at linear address a after the writes f[1..k]
RECURSIVE WrittenByte(_, _, _)
WrittenByte(f, k, a) ==
    IF k = 0 THEN RomInit(a)
    ELSE IF Reaches(f[k], a)
         THEN (IF f[k].kind = "erase" THEN \hFF
               ELSE BufByte(f[k].src + ((a - Linear(f[k].seg, 0)) % LINEAR_MOD)))
         ELSE WrittenByte(f, k - 1, a)

\* byte the memory f holds at linear address a (array read mode)
MemByte(f, a) == WrittenByte(f, Len(f), a)

\* byte a read of seg:>off returns from memory f with the chip in mode idm:
\* in software-ID mode the chip answers offsets 0 and 1 with its ids
ReadByte(f, idm, seg, off) ==
    LET a == Linear(seg, off)
    IN  IF idm /\ InChip(a) /\ ChipOff(a) \in {0, 1}
        THEN ChipId(dev.chip)[ChipOff(a) + 1]
        ELSE MemByte(f, a)

\* the sequences the chip decodes, as <<chip address, value>> pairs
DevIdEntry ==
    IF dev.entry = "primary"
    THEN << <<dev.pair[1], \hAA>>, <<dev.pair[2], \h55>>, <<dev.pair[1], \h90>> >>
    ELSE << <<dev.pair[1], \hAA>>, <<dev.pair[2], \h55>>, <<dev.pair[1], \h80>>,
            <<dev.pair[1], \hAA>>, <<dev.pair[2], \h55>>, <<dev.pair[1], \h60>> >>
DevIdExit == << <<dev.pair[1], \hAA>>, <<dev.pair[2], \h55>>, <<dev.pair[1], \hF0>> >>
DevProgram == << <<dev.pair[1], \hAA>>, <<dev.pair[2], \h55>>, <<dev.pair[1], \hA0>> >>
DevErase ==
    << <<dev.pair[1], \hAA>>, <<dev.pair[2], \h55>>, <<dev.pair[1], \h80>>,
       <<dev.pair[1], \hAA>>, <<dev.pair[2], \h55>> >>

\* what the chip sees of a sequence of bus writes
Seen(ws) == [i \in 1..Len(ws) |-> <<ChipOff(Linear(ws[i].seg, ws[i].off)), ws[i].val>>]

\* the chip enters software-ID mode on its own entry sequence, unless it
\* answers no command at all (dev.entry = "none")
DevEnters(ws) == dev.entry # "none" /\ Seen(ws) = DevIdEntry
DevExits(ws) == Seen(ws) = DevIdExit
DevUnlocksProgram(ws) == dev.entry # "none" /\ Seen(ws) = DevProgram
DevUnlocksErase(ws) == dev.entry # "none" /\ Seen(ws) = DevErase

(* ------------------------------------------------------------------ *)
(* Bus accesses                                                         *)
(* ------------------------------------------------------------------ *)

\* 8254 PIT ticks per second and the delays derived from it
TICKS_PER_SEC == 1193182
IDENTIFY_DELAY == TICKS_PER_SEC \div 100
WRITE_DELAY == TICKS_PER_SEC \div 20000

W(seg, off, val) == [op |-> "w", seg |-> seg, off |-> off, val |-> val]
R(seg, off, val) == [op |-> "r", seg |-> seg, off |-> off, val |-> val]
Cli == [op |-> "cli", seg |-> 0, off |-> 0, val |-> 0]
Sti == [op |-> "sti", seg |-> 0, off |-> 0, val |-> 0]
Delay(ticks) == [op |-> "delay", seg |-> 0, off |-> 0, val |-> ticks]

(* ------------------------------------------------------------------ *)
(* rom_identify                                                         *)
(* ------------------------------------------------------------------ *)

\* "Enter software ID mode"
IdPrimary(seg, a1, a2) == <<W(seg, a1, \hAA), W(seg, a2, \h55), W(seg, a1, \h90)>>

\* "Try alternate software ID mode"
IdAlternate(seg, a1, a2) ==
    <<W(seg, a1, \hAA), W(seg, a2, \h55), W(seg, a1, \h80),
      W(seg, a1, \hAA), W(seg, a2, \h55), W(seg, a1, \h60)>>

\* "Exit software ID mode"
IdExit(seg, a1, a2) == <<W(seg, a1, \hAA), W(seg, a2, \h55), W(seg, a1, \hF0)>>

\* the retry condition: the bytes read equal the baseline
SameAsBaseline(vendor_id, device_id, byte0, byte1) ==
    vendor_id = byte0 /\ device_id = byte1

\* a faulty variant of Lookup: the device id is not compared
Lookup_VendorOnly(vendor_id, device_id) ==
    LET hits == {i \in 0..(NUM_DEVICES - 1) : eeproms[i].vendor_id = vendor_id}
    IN  IF hits = {} THEN -1 ELSE CHOOSE i \in hits : \A j \in hits : i <= j

\* the registry search: the first index whose ids match, -1 when none does
Lookup(vendor_id, device_id) ==
    LET hits == {i \in 0..(NUM_DEVICES - 1) :
                    eeproms[i].vendor_id = vendor_id /\ eeproms[i].device_id = device_id}
    IN  IF hits = {} THEN -1 ELSE CHOOSE i \in hits : \A j \in hits : i <= j

\* the index rom_identify returns for the bytes it read last
IdResult(vendor_id, device_id, byte0, byte1) ==
    IF SameAsBaseline(vendor_id, device_id, byte0, byte1) THEN -1
    ELSE Lookup(vendor_id, device_id)

\* the baseline reads, the reset of the command-address pair and
\* interrupts_disable(): the state the attempts work on
IdBaseline(f, idm0, seg) ==
    [byte0 |-> ReadByte(f, idm0, seg, 0),
     byte1 |-> ReadByte(f, idm0, seg, 1),
     vendor_id |-> 0,
     device_id |-> 0,
     cmd_addr1 |-> PAIR_5555[1],
     cmd_addr2 |-> PAIR_5555[2],
     idmode |-> idm0,
     bus |-> <<>>]

\* what the reads that follow an entry sequence add to the state s
IdReads(s, seg, ws, idm, vendor_id, device_id) ==
    [s EXCEPT !.vendor_id = vendor_id,
              !.device_id = device_id,
              !.idmode = idm,
              !.bus = @ \o ws \o <<Delay(IDENTIFY_DELAY), R(seg, 0, vendor_id),
                                   R(seg, 1, device_id)>>]

\* the chip after the entry sequence ws, and the two ids read from it
IdEntered(f, seg, s, ws, idm) ==
    IdReads(s, seg, ws, idm, ReadByte(f, idm, seg, 0), ReadByte(f, idm, seg, 1))

\* one attempt: the entry sequence ws, the delay, the two reads
IdAttempt(f, seg, s, ws) == IdEntered(f, seg, s, ws, s.idmode \/ DevEnters(ws))

\* a faulty variant of IdFirst: interrupts are not disabled
IdFirst_NoCli(f, seg, s) ==
    IdAttempt(f, seg, [s EXCEPT !.bus = <<R(seg, 0, s.byte0), R(seg, 1, s.byte1)>>],
              IdPrimary(seg, s.cmd_addr1, s.cmd_addr2))

\* the first attempt: "Enter software ID mode"
IdFirst(f, seg, s) ==
    IdAttempt(f, seg, [s EXCEPT !.bus = <<R(seg, 0, s.byte0), R(seg, 1, s.byte1), Cli>>],
              IdPrimary(seg, s.cmd_addr1, s.cmd_addr2))

\* a faulty variant of IdSecond: the alternate entry is tried in any case
IdSecond_Always(f, seg, s) ==
    IdAttempt(f, seg, s, IdAlternate(seg, s.cmd_addr1, s.cmd_addr2))

\* the second attempt, made when the first one read the baseline again
IdSecond(f, seg, s) ==
    IF SameAsBaseline(s.vendor_id, s.device_id, s.byte0, s.byte1)
    THEN IdAttempt(f, seg, s, IdAlternate(seg, s.cmd_addr1, s.cmd_addr2))
    ELSE s

\* the third attempt, made when the second one left the baseline: the pair
\* is changed to 0x555 / 0x2AA first
IdThird(f, seg, s) ==
    IF SameAsBaseline(s.vendor_id, s.device_id, s.byte0, s.byte1)
    THEN IdAttempt(f, seg, [s EXCEPT !.cmd_addr1 = PAIR_555[1], !.cmd_addr2 = PAIR_555[2]],
                   IdAlternate(seg, PAIR_555[1], PAIR_555[2]))
    ELSE s

\* the exit sequence through the pair selected last, the delay,
\* interrupts_enable() and the registry search
IdLeave(seg, s, wx) ==
    [index |-> IdResult(s.vendor_id, s.device_id, s.byte0, s.byte1),
     cmd_addr1 |-> s.cmd_addr1,
     cmd_addr2 |-> s.cmd_addr2,
     vendor_id |-> s.vendor_id,
     device_id |-> s.device_id,
     byte0 |-> s.byte0,
     byte1 |-> s.byte1,
     idmode |-> s.idmode /\ ~DevExits(wx),
     bus |-> s.bus \o wx \o <<Delay(IDENTIFY_DELAY), Sti>>]

\* a faulty variant of IdLast: no exit sequence at all
IdLast_NoExit(seg, s) == IdLeave(seg, s, <<>>)

\* a faulty variant of IdLast: no exit sequence when nothing was identified
IdLast_ExitOnSuccess(seg, s) ==
    IdLeave(seg, s, IF SameAsBaseline(s.vendor_id, s.device_id, s.byte0, s.byte1)
                    THEN <<>> ELSE IdExit(seg, s.cmd_addr1, s.cmd_addr2))

\* the end of rom_identify: the exit sequence is written on every path
IdLast(seg, s) == IdLeave(seg, s, IdExit(seg, s.cmd_addr1, s.cmd_addr2))

\* rom_identify(seg) on memory f with the chip in mode idm0: the index it
\* returns, the command-address pair it leaves, the bytes it read, its bus
\* accesses and the mode it leaves the chip in
rom_identify(f, idm0, seg) ==
    IdLast(seg, IdThird(f, seg, IdSecond(f, seg, IdFirst(f, seg, IdBaseline(f, idm0, seg)))))

(* ------------------------------------------------------------------ *)
(* What a write burst does to the flash                                 *)
(* ------------------------------------------------------------------ *)

ERASE_TIMEOUT == (TICKS_PER_SEC \div 10) \div WRITE_DELAY
PAGE_WRITE_TIMEOUT == (TICKS_PER_SEC \div 10) \div WRITE_DELAY
BYTE_WRITE_TIMEOUT == (TICKS_PER_SEC \div 100) \div WRITE_DELAY

\* a faulty variant of WriteData: the last byte of the run is not written
WriteData_Short(f, seg, src, n, taken) ==
    IF n <= 1 THEN f
    ELSE Append(f, [kind |-> "data", seg |-> seg, src |-> src, n |-> n - 1, taken |-> taken])

\* memory f after n bytes, taken from distance src of the file buffer, were
\* written in increasing order starting at seg:>0; taken tells whether the
\* chip took the command that preceded them
WriteData(f, seg, src, n, taken) ==
    IF n = 0 THEN f
    ELSE Append(f, [kind |-> "data", seg |-> seg, src |-> src, n |-> n, taken |-> taken])

\* memory f after the chip erased the sector that starts at seg:>0
EraseSector(f, seg) ==
    Append(f, [kind |-> "erase", seg |-> seg, src |-> 0, n |-> ChipPageSize(dev.chip),
               taken |-> TRUE])

\* the chip supports the sector erase command
DevHasErase == dev.chip \in DOMAIN eeproms /\ eeproms[dev.chip].need_erase = 1

\* a faulty variant of PollsMade: one poll more than the budget on a timeout
PollsMade_OneMore(now, later, budget) ==
    IF now THEN 1
    ELSE IF later /\ dev.lat < budget THEN dev.lat + 1
    ELSE budget + 1

\* number of polls a loop of at most budget polls makes when the byte read
\* is already right (now), becomes right after dev.lat more polls (later),
\* or never does; and whether it ends by a match
PollsMade(now, later, budget) ==
    IF now THEN 1
    ELSE IF later /\ dev.lat < budget THEN dev.lat + 1
    ELSE budget

\* a faulty variant of PollMatches: the loop is taken to end by a match
PollMatches_Always(now, later, budget) == TRUE

\* whether the loop ends by a match, not by running out of polls
PollMatches(now, later, budget) == now \/ (later /\ dev.lat < budget)

\* a faulty variant of PollDelays: no pit_delay between the polls
PollDelays_None(now, later, budget) == 0

\* number of pit_delay(WRITE_DELAY) calls of such a loop: one after every
\* poll that did not match
PollDelays(now, later, budget) ==
    IF PollMatches(now, later, budget)
    THEN PollsMade(now, later, budget) - 1
    ELSE PollsMade(now, later, budget)

\* the bus accesses of such a loop on the byte at seg:>off: the polls, and
\* the ticks spent in the delays between them
PollLoop(seg, off, now, later, budget) ==
    <<[op |-> "poll", seg |-> seg, off |-> off, val |-> PollsMade(now, later, budget)],
      Delay(WRITE_DELAY * PollDelays(now, later, budget))>>

(* ------------------------------------------------------------------ *)
(* rom_erase_page                                                       *)
(* ------------------------------------------------------------------ *)

\* a faulty variant of EraseCommand: the pair 0x5555 / 0x2AAA whatever a1, a2
EraseCommand_FixedPair(rom_st, page_seg, a1, a2) ==
    <<W(rom_st, PAIR_5555[1], \hAA), W(rom_st, PAIR_5555[2], \h55),
      W(rom_st, PAIR_5555[1], \h80), W(rom_st, PAIR_5555[1], \hAA),
      W(rom_st, PAIR_5555[2], \h55), W(page_seg, 0, \h30)>>

\* "Enter page erase mode"
EraseCommand(rom_st, page_seg, a1, a2) ==
    <<W(rom_st, a1, \hAA), W(rom_st, a2, \h55), W(rom_st, a1, \h80),
      W(rom_st, a1, \hAA), W(rom_st, a2, \h55), W(page_seg, 0, \h30)>>

\* rom_erase_page(rom_st, page_seg) on memory f with the pair a1, a2
rom_erase_page(f, rom_st, page_seg, a1, a2) ==
    LET ws == EraseCommand(rom_st, page_seg, a1, a2)
        a == Linear(page_seg, 0)
        taken == /\ DevHasErase
                 /\ DevUnlocksErase(SubSeq(ws, 1, 5))
                 /\ InChip(Linear(ws[6].seg, ws[6].off))
                 /\ ws[6].val = \h30
                 /\ ~dev.erase_dead
        f2 == IF taken THEN EraseSector(f, ws[6].seg) ELSE f
        now == MemByte(f, a) = \hFF
        later == MemByte(f2, a) = \hFF
    IN  [ret |-> IF PollMatches(now, later, ERASE_TIMEOUT) THEN 0 ELSE 1,
         polls |-> PollsMade(now, later, ERASE_TIMEOUT),
         flash |-> f2,
         bus |-> ws \o PollLoop(page_seg, 0, now, later, ERASE_TIMEOUT)]

(* ------------------------------------------------------------------ *)
(* rom_program_page                                                     *)
(* ------------------------------------------------------------------ *)

\* a faulty variant of ProgramCommand: the erase opcode in place of 0xA0
ProgramCommand_Opcode80(rom_st, a1, a2) ==
    <<W(rom_st, a1, \hAA), W(rom_st, a2, \h55), W(rom_st, a1, \h80)>>

\* "Enter page write mode" / "Enter write mode"
ProgramCommand(rom_st, a1, a2) ==
    <<W(rom_st, a1, \hAA), W(rom_st, a2, \h55), W(rom_st, a1, \hA0)>>

\* offsets of the page at page_seg whose byte does not come to hold the
\* byte written; when the chip took the command and the page lies inside
\* the chip these are the offsets of the stuck cells
Unlatched(page_seg, page_size, taken) ==
    IF taken /\ InChip(Linear(page_seg, 0)) /\ InChip(Linear(page_seg, page_size - 1))
    THEN {o \in {(a - Linear(page_seg, 0)) % LINEAR_MOD : a \in dev.stuck} : o < page_size}
    ELSE {o \in 0..(page_size - 1) : ~Latches(Linear(page_seg, o), taken)}

\* the page-write branch: one command, the whole page, then polls of the
\* last byte of the page
ProgramPageWrite(f, rom_st, page_seg, fseg, page_size, a1, a2) ==
    LET ws == ProgramCommand(rom_st, a1, a2)
        src == BufOffset(fseg, 0)
        taken == DevUnlocksProgram(ws)
        \* a chip without page write programs the first byte loaded only
        n == IF dev.chip \in DOMAIN eeproms /\ eeproms[dev.chip].page_write = 0
             THEN 1 ELSE page_size
        f2 == WriteData(f, page_seg, src, n, taken)
        last == Linear(page_seg, page_size - 1)
        want == BufByte(src + page_size - 1)
        now == MemByte(f, last) = want
        later == MemByte(f2, last) = want
    IN  [ret |-> IF PollMatches(now, later, PAGE_WRITE_TIMEOUT) THEN 0 ELSE 1,
         polls |-> PollsMade(now, later, PAGE_WRITE_TIMEOUT),
         written |-> page_size,
         flash |-> f2,
         bus |-> ws \o <<[op |-> "data", seg |-> page_seg, off |-> 0, val |-> page_size]>>
                   \o PollLoop(page_seg, page_size - 1, now, later, PAGE_WRITE_TIMEOUT)]

\* the byte-write branch: command, byte and polls of that byte for each
\* offset in turn, stopping at the first byte that does not read back
ProgramByteWrite(f, rom_st, page_seg, fseg, page_size, a1, a2) ==
    LET ws == ProgramCommand(rom_st, a1, a2)
        src == BufOffset(fseg, 0)
        taken == DevUnlocksProgram(ws)
        \* offsets whose polls run out: the byte does not latch in time and
        \* does not happen to hold the byte written already
        bad == {o \in Unlatched(page_seg, page_size, taken /\ dev.lat < BYTE_WRITE_TIMEOUT) :
                    MemByte(f, Linear(page_seg, o)) # BufByte(src + o)}
        stop == IF bad = {} THEN page_size
                ELSE CHOOSE o \in bad : \A o2 \in bad : o <= o2
        \* offsets 0 .. stop were written (stop itself too, when below page_size)
        n == Min(stop + 1, page_size)
        f2 == WriteData(f, page_seg, src, n, taken)
        \* the last byte written: the one whose polls ran out, or the last
        \* byte of the page
        now == MemByte(f, Linear(page_seg, n - 1)) = BufByte(src + n - 1)
    IN  [ret |-> IF stop = page_size THEN 0 ELSE 1,
         polls |-> PollsMade(now, stop = page_size, BYTE_WRITE_TIMEOUT),
         written |-> n,
         flash |-> f2,
         \* the command and the poll loop are those of the last byte written;
         \* each byte before it had the same command and its own loop
         bus |-> ws \o <<[op |-> "data", seg |-> page_seg, off |-> 0, val |-> n]>>
                   \o PollLoop(page_seg, n - 1, now, stop = page_size, BYTE_WRITE_TIMEOUT)]

\* rom_program_page(rom_st, page_seg, fseg, page_size, page_write)
rom_program_page(f, rom_st, page_seg, fseg, page_size, page_write, a1, a2) ==
    IF page_write # 0
    THEN ProgramPageWrite(f, rom_st, page_seg, fseg, page_size, a1, a2)
    ELSE ProgramByteWrite(f, rom_st, page_seg, fseg, page_size, a1, a2)

(* ------------------------------------------------------------------ *)
(* rom_verify                                                           *)
(* ------------------------------------------------------------------ *)

\* number of offsets below n at which rom_seg:>offset and file_seg:>offset differ
ChunkDiff(f, idm, rseg, fseg, n) ==
    Cardinality({offset \in 0..(n - 1) :
                    ReadByte(f, idm, rseg, offset) # BufByte(BufOffset(fseg, offset))})

\* a faulty variant of VerifyLoop: the first chunk only
VerifyLoop_FirstChunk(f, idm, rseg, fseg, bytes_to_verify) ==
    ChunkDiff(f, idm, rseg, fseg,
              IF bytes_to_verify > \h10000 THEN \h10000 ELSE bytes_to_verify)

\* the loop of rom_verify: up to 64 KiB at a time, both segments advanced
\* by 0x1000 per chunk
RECURSIVE VerifyLoop(_, _, _, _, _)
VerifyLoop(f, idm, rseg, fseg, bytes_to_verify) ==
    IF bytes_to_verify <= 0 THEN 0
    ELSE LET verify_size == IF bytes_to_verify > \h10000 THEN \h10000 ELSE bytes_to_verify
         IN  ChunkDiff(f, idm, rseg, fseg, verify_size)
             + VerifyLoop(f, idm, SegAdd(rseg, \h1000), SegAdd(fseg, \h1000),
                          bytes_to_verify - verify_size)

\* the difference count of rom_verify(rseg, fseg, size)
rom_verify(f, idm, rseg, fseg, size) == VerifyLoop(f, idm, rseg, fseg, size)

(* ------------------------------------------------------------------ *)
(* checksum                                                             *)
(* ------------------------------------------------------------------ *)

\* the byte checksum() reads at seg:>off: of the ROM as the bus returns it,
\* or of the file buffer
SumByte(of_file, f, idm, seg, off) ==
    IF of_file THEN BufByte(BufOffset(seg, off)) ELSE ReadByte(f, idm, seg, off)

\* the inner loop over one chunk: the bytes at seg:>lo .. seg:>(hi - 1) added
\* up; the 16-bit accumulator makes the order of the additions irrelevant,
\* so the range is split in halves
RECURSIVE ChunkSum(_, _, _, _, _, _)
ChunkSum(of_file, f, idm, seg, lo, hi) ==
    IF hi <= lo THEN 0
    ELSE IF hi = lo + 1 THEN SumByte(of_file, f, idm, seg, lo)
    ELSE (ChunkSum(of_file, f, idm, seg, lo, (lo + hi) \div 2)
          + ChunkSum(of_file, f, idm, seg, (lo + hi) \div 2, hi)) % UINT_MOD

\* a faulty variant of ChecksumChunks: the segment is advanced by 64 KiB per chunk
RECURSIVE ChecksumChunks_WideStep(_, _)
ChecksumChunks_WideStep(data_seg, bytes_to_checksum) ==
    IF bytes_to_checksum <= 0 THEN <<>>
    ELSE <<[seg |-> data_seg,
            n |-> IF bytes_to_checksum > \h8000 THEN \h8000 ELSE bytes_to_checksum]>>
         \o ChecksumChunks_WideStep(SegAdd(data_seg, \h1000),
                IF bytes_to_checksum > \h8000 THEN bytes_to_checksum - \h8000 ELSE 0)

\* the while loop of checksum: the chunks it sums, of up to 32 KiB each, the
\* segment advanced by 0x0800 after every chunk
RECURSIVE ChecksumChunks(_, _)
ChecksumChunks(data_seg, bytes_to_checksum) ==
    IF bytes_to_checksum <= 0 THEN <<>>
    ELSE <<[seg |-> data_seg,
            n |-> IF bytes_to_checksum > \h8000 THEN \h8000 ELSE bytes_to_checksum]>>
         \o ChecksumChunks(SegAdd(data_seg, \h0800),
                IF bytes_to_checksum > \h8000 THEN bytes_to_checksum - \h8000 ELSE 0)

\* the unsigned int the chunks[1..k] add up to
RECURSIVE ChecksumLoop(_, _, _, _, _)
ChecksumLoop(of_file, f, idm, chunks, k) ==
    IF k = 0 THEN 0
    ELSE (ChecksumLoop(of_file, f, idm, chunks, k - 1)
          + ChunkSum(of_file, f, idm, chunks[k].seg, 0, chunks[k].n)) % UINT_MOD

\* checksum(data_seg, rom_size)
checksum(of_file, f, idm, data_seg, size) ==
    ChecksumLoop(of_file, f, idm, ChecksumChunks(data_seg, size),
                 Len(ChecksumChunks(data_seg, size)))

(* ------------------------------------------------------------------ *)
(* main: the segment and size the run works on                          *)
(* ------------------------------------------------------------------ *)

\* rom_seg as the option loop leaves it
ArgSeg(a) == IF a = -1 THEN \hF800 ELSE a

\* a faulty variant of DefaultSeg: the segment is left as the option loop set it
DefaultSeg_Keep(seg, size) == seg

\* the size-based default main substitutes after load_file
DefaultSeg(seg, size) ==
    IF seg = \hF800
    THEN IF size = 65536 THEN \hF000
         ELSE IF size = 131072 THEN \hE000
         ELSE IF size = 24576 THEN \hFA00
         ELSE seg
    ELSE seg

\* "check if ROM size extends beyond 1 MiB": rom_size is an unsigned long, so
\* the sum is formed in 32 bits; for the sizes of the model (below 2^27) no
\* term reaches 2^32 and the 32-bit sum is the plain sum
BeyondCheck(seg, size) == ((size + 15) \div 16) - 1 + seg < seg

\* the run loads the input file: to program, to verify, or for a checksum
\* when -i was given ("i" in the mode; a run that programs or verifies
\* always has an input file, main rejects it otherwise)
NeedsFile(m) == "p" \in m \/ "v" \in m \/ ("c" \in m /\ "i" \in m)

(* ------------------------------------------------------------------ *)
(* Inputs                                                               *)
(* ------------------------------------------------------------------ *)

\* a chip that answers the primary entry at 0xE000 and 0xF000 and has no fault
NominalDev(c) ==
    [chip |-> c, entry |-> "primary", pair |-> PAIR_5555,
     segs |-> {\hE000, \hF000}, resting |-> <<\hEA, \h5B>>,
     stuck |-> {}, erase_dead |-> FALSE, lat |-> 0]

\* the ways a chip may answer identification
Answers ==
    {<<"primary", PAIR_5555>>, <<"alt", PAIR_5555>>, <<"alt", PAIR_555>>,
     <<"primary", PAIR_555>>, <<"none", PAIR_5555>>}

\* the windows a chip may be mapped into
Mappings == {{\hE000, \hF000}, {\hF000}, {\hE000}, {\hD000}}

\* offsets, from the start of the target region, of a cell that may be stuck
StuckOffsets == {0, 127, 130, 4100, 16500}

\* polls a write or erase may need before it reads back
Latencies == {0, 1, PAGE_WRITE_TIMEOUT}

\* image sizes tried
Sizes == {128 * k : k \in 1..MaxSmallPages}
         \cup {8192, 24576, 32768, 65536, 81920, 131072}

\* segments -a may give (0xB000 is below the accepted range)
Segments == {-1, \hF800, \hF000, \hE000, \hD000, \hF808, \hFFF8, \hB000}

\* mode combinations tried
Modes == {{"p"}, {"p", "v"}, {"v"}, {"r", "p", "v"}, {"r"}}

\* the segment the run will work on, for the placement of a stuck cell
TargetSeg(a, size) == DefaultSeg(ArgSeg(a), size)

\* chips that answer identification in every way, without a fault
AnswerDevs(c) ==
    {[NominalDev(c) EXCEPT !.entry = x[1], !.pair = x[2], !.segs = sg, !.resting = r] :
        x \in Answers, sg \in Mappings, r \in {<<\hEA, \h5B>>, ChipId(c)}}

\* chips that answer as the nominal one and have a fault: a stuck cell, an
\* erase that never completes, or writes that need polls to read back
FaultDevs(c, t) ==
    {[NominalDev(c) EXCEPT !.stuck = st, !.erase_dead = e] :
        st \in {{}} \cup {{Linear(t, o)} : o \in StuckOffsets}, e \in BOOLEAN}
    \cup {[NominalDev(c) EXCEPT !.lat = l] : l \in Latencies}

\* the pages a run would program do not exceed the bound of the model
WithinBound(c, m, size) ==
    "p" \in m /\ size % ChipPageSize(c) = 0 => size \div ChipPageSize(c) <= MaxPages

\* a run: the chip, the mode, -a, the file size, -s and the image content
Run(d, m, a, sz, s, i) ==
    [dev |-> d, mode |-> m, opt_a |-> a, file_size |-> sz, opt_s |-> s, img |-> i]

\* the command lines tried with a nominal chip of 128-byte pages: every mode
\* and segment with the small images, -s only with a plain read; the sizes
\* with a default segment of their own are verified without programming
SmallPageRuns ==
    {r \in {Run(NominalDev(1), m, a, sz, s, 1) :
                m \in Modes, a \in Segments, sz \in Sizes, s \in {-1, 8192}} :
        /\ r.opt_s # -1 => r.mode = {"r"}
        /\ r.file_size > 128 * MaxSmallPages =>
              /\ r.mode = {"v"}
              /\ r.opt_a \in {-1, \hF800}
              /\ r.file_size \in {24576, 65536, 131072}}

\* the command lines tried with a nominal chip of 4096-byte sectors
SectorRuns ==
    {r \in {Run(NominalDev(4), m, a, sz, -1, 1) :
                m \in Modes, a \in Segments, sz \in {384, 8192, 24576}} :
        r.file_size = 24576 =>
              r.opt_a \in {-1, \hF800, \hF000} /\ r.mode \in {{"p"}, {"p", "v"}}}

\* the command lines tried with a nominal chip of 16384-byte sectors: the
\* images above 32 KiB are programmed here
LargeRuns ==
    {r \in {Run(NominalDev(0), m, a, sz, -1, 1) :
                m \in {{"p"}, {"p", "v"}}, a \in {-1, \hF800, \hE000},
                sz \in {24576, 32768, 65536, 81920, 131072}} :
        "v" \in r.mode =>
              <<r.opt_a, r.file_size>> \in
                  {<<-1, 24576>>, <<-1, 32768>>, <<-1, 65536>>, <<-1, 81920>>,
                   <<\hE000, 81920>>}}

\* the command lines that save the ROM and then program an image of a size
\* with a default segment of its own
SaveAndProgramRuns ==
    {Run(NominalDev(0), {"r", "p"}, -1, sz, -1, 1) : sz \in {24576, 32768, 65536, 131072}}
    \cup {Run(NominalDev(0), {"r", "p"}, \hE000, 32768, s, 1) : s \in {-1, 32768}}

CommandLineRuns == SmallPageRuns \cup SectorRuns \cup LargeRuns \cup SaveAndProgramRuns

\* the runs tried with chips that answer identification in another way
AnswerRuns ==
    UNION {{Run(d, IF sz = 256 THEN {"p", "v"} ELSE {"p"}, a, sz, -1, 1) :
                d \in AnswerDevs(c), a \in {-1, \hD000, \hE000}, sz \in {256, 32768}} :
           c \in 0..UNKNOWN_CHIP}

\* the runs tried with chips that have a fault: two pages of the chip
FaultRuns ==
    UNION {UNION {{Run(d, IF c = 1 THEN {"p", "v"} ELSE {"p"}, a,
                       2 * ChipPageSize(c), -1, i) :
                        d \in FaultDevs(c, TargetSeg(a, 2 * ChipPageSize(c))),
                        i \in {0, 1}} :
                  a \in {-1, \hE000}} :
           c \in {0, 1, 4}}

\* a segment of the expansion ROM area, accepted by -a and below 0xE000
OPTION_ROM_SEG == \hC800

\* the runs that program a chip of the expansion ROM area: mapped at the
\* segment given, or absent from it
OptionRomRuns ==
    {Run([NominalDev(c) EXCEPT !.segs = sg], {"p"}, OPTION_ROM_SEG, 2 * ChipPageSize(c), -1, 1) :
        c \in {1, 4}, sg \in {{OPTION_ROM_SEG}, {\hE000, \hF000}}}

\* the runs with -c: the checksum of the ROM region alone or after a read
\* (sizes given with -s), and the checksum of the input file alone or in
\* runs that program or verify it
ChecksumRuns ==
    {Run(NominalDev(1), m, a, 32768, sz, 1) :
        m \in {{"c"}, {"r", "c"}}, a \in {-1, \hE000}, sz \in {-1, 8192, 40960, 81920}}
    \cup {Run(NominalDev(1), m, -1, sz, -1, i) :
            m \in {{"c", "p"}, {"c", "p", "v"}, {"r", "c", "p", "v"}},
            sz \in {128, 256}, i \in {0, 1}}
    \cup {Run(NominalDev(1), m, a, sz, -1, 1) :
            m \in {{"c", "i"}, {"r", "c", "i"}}, a \in {-1, \hE000},
            sz \in {384, 40960, 81920}}

\* every run of the model
Runs ==
    {r \in CommandLineRuns \cup AnswerRuns \cup FaultRuns \cup OptionRomRuns
           \cup ChecksumRuns :
        WithinBound(r.dev.chip, r.mode, r.file_size)}

Init ==
    /\ \E r \in Runs :
          /\ dev = r.dev
          /\ mode = r.mode
          /\ opt_a = r.opt_a
          /\ opt_s = r.opt_s
          /\ file_size = r.file_size
          /\ img = r.img
    /\ idmode = FALSE
    /\ flash = <<>>
    /\ pc = "args"
    /\ rom_seg = \hF800
    /\ file_seg = 0
    /\ rom_size = DEFAULT_ROM_SIZE
    /\ cur_seg = 0
    /\ cur_fseg = 0
    /\ rom_start = 0
    /\ eeprom_index = -1
    /\ cmd_addr1 = PAIR_5555[1]
    /\ cmd_addr2 = PAIR_5555[2]
    /\ page = 0
    /\ intr = TRUE
    /\ bus = <<>>
    /\ hist = <<>>
    /\ out = <<>>
    /\ exit_code = -1
    /\ diff = -1
    /\ start_time = 0
    /\ end_time = 0
    /\ loops_per_1ms = 1

\* what no step of version 0.5 changes: the command line, the file, the
\* chip, and the calibration variables that version 0.5 does not have
inputs == <<mode, opt_a, opt_s, file_size, img, dev, start_time, end_time, loops_per_1ms>>

\* a completed step of the run: what was called, for which page, on which
\* segments, with which command-address pair and interrupt state, what it
\* returned, how many bytes it handled and what identification read
Step(what, pg, seg, fseg, n, ret, id) ==
    [step |-> what, page |-> pg, seg |-> seg, fseg |-> fseg,
     a1 |-> cmd_addr1, a2 |-> cmd_addr2, ie |-> intr, n |-> n, ret |-> ret, id |-> id]

\* exit(code) after printing msg
Exit(msg, code) ==
    /\ pc' = "exit"
    /\ out' = Append(out, msg)
    /\ exit_code' = code

(* ------------------------------------------------------------------ *)
(* main                                                                 *)
(* ------------------------------------------------------------------ *)

\* the option loop: -a and -s are scanned, a segment below 0xC000 is an error
MainArgs ==
    /\ pc = "args"
    /\ IF opt_a # -1 /\ opt_a < \hC000
       THEN /\ Exit("Invalid ROM segment specified", 1)
            /\ UNCHANGED <<rom_seg, rom_size>>
       ELSE /\ rom_seg' = ArgSeg(opt_a)
            /\ rom_size' = IF opt_s = -1 THEN DEFAULT_ROM_SIZE ELSE opt_s
            /\ pc' = "read"
            /\ UNCHANGED <<out, exit_code>>
    /\ UNCHANGED <<inputs, idmode, flash, file_seg, cur_seg, cur_fseg, rom_start,
                   eeprom_index, cmd_addr1, cmd_addr2, page, intr, bus, hist, diff>>

\* a faulty variant of MainRead: the ROM is saved when the batch has finished
MainRead_Late ==
    \/ /\ pc = "read"
       /\ pc' = "load"
       /\ UNCHANGED <<inputs, idmode, flash, rom_seg, file_seg, rom_size, cur_seg,
                      cur_fseg, rom_start, eeprom_index, cmd_addr1, cmd_addr2, page,
                      intr, bus, exit_code, diff, out, hist>>
    \/ /\ pc = "verify"
       /\ "r" \in mode
       /\ \A i \in DOMAIN out : out[i] # "Saving ROM content"
       /\ out' = Append(out, "Saving ROM content")
       /\ hist' = Append(hist, Step("read", -1, rom_seg, 0, rom_size, 0, <<>>))
       /\ UNCHANGED <<inputs, idmode, flash, rom_seg, file_seg, rom_size, cur_seg,
                      cur_fseg, rom_start, eeprom_index, cmd_addr1, cmd_addr2, page,
                      intr, bus, exit_code, diff, pc>>

\* if (mode & MODE_READ) rom_read(rom_seg, out_file, rom_size)
MainRead ==
    /\ pc = "read"
    /\ pc' = "load"
    /\ out' = IF "r" \in mode THEN Append(out, "Saving ROM content") ELSE out
    /\ hist' = IF "r" \in mode
               THEN Append(hist, Step("read", -1, rom_seg, 0, rom_size, 0, <<>>))
               ELSE hist
    /\ UNCHANGED <<inputs, idmode, flash, rom_seg, file_seg, rom_size, cur_seg,
                   cur_fseg, rom_start, eeprom_index, cmd_addr1, cmd_addr2, page,
                   intr, bus, exit_code, diff>>

\* load_file, the size-based default segment and the 1 MiB check
MainLoad ==
    /\ pc = "load"
    /\ IF ~NeedsFile(mode)
       THEN /\ pc' = "checksum"
            /\ UNCHANGED <<rom_seg, file_seg, rom_size, out, exit_code>>
       ELSE IF BeyondCheck(DefaultSeg(rom_seg, file_size), file_size)
       THEN /\ Exit("ROM image extends beyond 1 MiB", 1)
            /\ rom_size' = file_size
            /\ file_seg' = FILE_SEG0
            /\ rom_seg' = DefaultSeg(rom_seg, file_size)
       ELSE /\ rom_size' = file_size
            /\ file_seg' = FILE_SEG0
            /\ rom_seg' = DefaultSeg(rom_seg, file_size)
            /\ pc' = "checksum"
            /\ UNCHANGED <<out, exit_code>>
    /\ UNCHANGED <<inputs, idmode, flash, cur_seg, cur_fseg, rom_start,
                   eeprom_index, cmd_addr1, cmd_addr2, page, intr, bus, hist, diff>>

\* if (mode & MODE_CHECKSUM): the checksum of the file when an input file
\* was given, of the ROM region otherwise
MainChecksum ==
    /\ pc = "checksum"
    /\ pc' = "program"
    /\ IF "c" \in mode
       THEN LET of_file == NeedsFile(mode)
                data_seg == IF of_file THEN file_seg ELSE rom_seg
                sum == checksum(of_file, flash, idmode, data_seg, rom_size)
            IN  /\ out' = Append(out, IF of_file THEN "The checksum of the file"
                                      ELSE "Current ROM checksum")
                /\ hist' = Append(hist, Step("checksum", -1, rom_seg, file_seg,
                                             rom_size, sum, <<>>))
       ELSE UNCHANGED <<out, hist>>
    /\ UNCHANGED <<inputs, idmode, flash, rom_seg, file_seg, rom_size, cur_seg,
                   cur_fseg, rom_start, eeprom_index, cmd_addr1, cmd_addr2, page,
                   intr, bus, exit_code, diff>>

(* ------------------------------------------------------------------ *)
(* rom_program                                                          *)
(* ------------------------------------------------------------------ *)

\* a faulty variant of PageSize: the page size of registry entry 1 whatever
\* the device detected
PageSize_Smallest == eeproms[1].page_size

\* the page size and page count rom_program works with
PageSize == eeproms[eeprom_index].page_size
NumPages == (rom_size \div PageSize) % SEG_MOD

\* a faulty variant of FirstWindow: the ROM segment itself whatever it is
FirstWindow_Target(seg) == seg

\* a faulty variant of FirstWindow: 0xF000 whatever the ROM segment
FirstWindow_SystemRom(seg) == \hF000

\* the window probed first: the ROM segment itself below 0xE000, else 0xF000
FirstWindow(seg) == IF seg < \hE000 THEN seg ELSE \hF000

\* a faulty variant of NextPageSeg: the page size is added without the shift
NextPageSeg_NoShift(seg, page_size) == SegAdd(seg, page_size)

\* the segment of the page after the one at seg
NextPageSeg(seg, page_size) == SegAdd(seg, page_size \div PARAGRAPH)

\* a faulty variant of AfterPage: the batch ends after a page whose erase timed out
AfterPage_StopOnEraseTimeout(pg, erase_ret, program_ret) ==
    IF pg + 1 < NumPages /\ erase_ret = 0
    THEN (IF eeproms[eeprom_index].need_erase # 0 THEN "erase" ELSE "write")
    ELSE "finish"

\* a faulty variant of AfterPage: the loop never leaves for the end of the batch
AfterPage_Forever(pg, erase_ret, program_ret) ==
    IF eeproms[eeprom_index].need_erase # 0 THEN "erase" ELSE "write"

\* a faulty variant of AfterPage: the page after the first is programmed
\* without its erase step
AfterPage_NoErase(pg, erase_ret, program_ret) ==
    IF pg + 1 < NumPages THEN "write" ELSE "finish"

\* where the page loop goes after a page: the next page's first step, or
\* the end of the batch; the return codes of the steps are not looked at
AfterPage(pg, erase_ret, program_ret) ==
    IF pg + 1 < NumPages
    THEN (IF eeproms[eeprom_index].need_erase # 0 THEN "erase" ELSE "write")
    ELSE "finish"

\* the last step of the kind what recorded for page pg, as a set
LastStep(what, pg) ==
    {hist[k] : k \in {k \in 1..Len(hist) :
                        /\ hist[k].step = what /\ hist[k].page = pg
                        /\ \A k2 \in (k + 1)..Len(hist) :
                              ~(hist[k2].step = what /\ hist[k2].page = pg)}}

\* entry of rom_program: the parameters are copied, the first window chosen
ProgramStart ==
    /\ pc = "program"
    /\ IF "p" \in mode
       THEN /\ cur_seg' = rom_seg
            /\ cur_fseg' = file_seg
            /\ rom_start' = FirstWindow(rom_seg)
            /\ pc' = "identify"
       ELSE /\ pc' = "verify"
            /\ UNCHANGED <<cur_seg, cur_fseg, rom_start>>
    /\ UNCHANGED <<inputs, idmode, flash, rom_seg, file_seg, rom_size, eeprom_index,
                   cmd_addr1, cmd_addr2, page, intr, bus, hist, out, exit_code, diff>>

\* a faulty variant of Identified: the result -1 is not looked at, the run
\* goes on with the first registry entry
Identified_Unchecked(r, o1) ==
    /\ eeprom_index' = IF r.index = -1 THEN 0 ELSE r.index
    /\ cmd_addr1' = r.cmd_addr1
    /\ cmd_addr2' = r.cmd_addr2
    /\ idmode' = r.idmode
    /\ bus' = r.bus
    /\ hist' = Append(hist, [Step("identify", -1, rom_start, 0, 0, r.index,
                                  <<r.vendor_id, r.device_id, r.byte0, r.byte1>>)
                             EXCEPT !.a1 = r.cmd_addr1, !.a2 = r.cmd_addr2])
    /\ pc' = "geometry"
    /\ out' = o1
    /\ UNCHANGED <<rom_start, exit_code>>

\* what rom_program does with the result r of rom_identify(rom_start)
Identified(r, o1) ==
    /\ eeprom_index' = r.index
    /\ cmd_addr1' = r.cmd_addr1
    /\ cmd_addr2' = r.cmd_addr2
    /\ idmode' = r.idmode
    /\ bus' = r.bus
    /\ hist' = Append(hist, [Step("identify", -1, rom_start, 0, 0, r.index,
                                  <<r.vendor_id, r.device_id, r.byte0, r.byte1>>)
                             EXCEPT !.a1 = r.cmd_addr1, !.a2 = r.cmd_addr2])
    /\ IF r.index # -1
       THEN /\ pc' = "geometry"
            /\ out' = o1
            /\ UNCHANGED <<rom_start, exit_code>>
       ELSE IF cur_seg >= \hE000 /\ rom_start = \hF000
       THEN /\ rom_start' = \hE000
            /\ pc' = "identify"
            /\ out' = o1
            /\ UNCHANGED exit_code
       ELSE /\ pc' = "exit"
            /\ out' = Append(o1, "Cannot detect flash ROM type")
            /\ exit_code' = 1
            /\ UNCHANGED rom_start

\* the message rom_identify prints when the ids it read are in no registry entry
IdMessage(r) ==
    IF r.index = -1 /\ ~SameAsBaseline(r.vendor_id, r.device_id, r.byte0, r.byte1)
    THEN Append(out, "Unsupported flash ROM type")
    ELSE out

IdentifyWith(r) == Identified(r, IdMessage(r))

\* one call rom_identify(rom_start) and what rom_program does with its result
Identify ==
    /\ pc = "identify"
    /\ IdentifyWith(rom_identify(flash, idmode, rom_start))
    /\ UNCHANGED <<inputs, flash, rom_seg, file_seg, rom_size, cur_seg, cur_fseg,
                   page, intr, diff>>

\* the page-boundary check (a message only), the page count check (exit 10)
\* and interrupts_disable() before the page loop
Geometry ==
    /\ pc = "geometry"
    /\ LET page_paragraph == PageSize \div PARAGRAPH
           unaligned == (cur_seg \div page_paragraph) * page_paragraph # cur_seg
           o1 == IF unaligned
                 THEN Append(out, "Specified ROM segment doesn't start on the page boundary")
                 ELSE out
       IN  IF NumPages * PageSize # rom_size
           THEN /\ pc' = "exit"
                /\ out' = Append(o1, "ROM image size is not a multiply of the flash page size")
                /\ exit_code' = 10
                /\ UNCHANGED <<intr, page>>
           ELSE /\ out' = Append(o1, "Programming the flash ROM")
                /\ intr' = FALSE
                /\ page' = 0
                /\ pc' = IF NumPages = 0 THEN "finish"
                         ELSE IF eeproms[eeprom_index].need_erase # 0 THEN "erase"
                         ELSE "write"
                /\ UNCHANGED exit_code
    /\ UNCHANGED <<inputs, idmode, flash, rom_seg, file_seg, rom_size, cur_seg,
                   cur_fseg, rom_start, eeprom_index, cmd_addr1, cmd_addr2, bus,
                   hist, diff>>

\* the return code of the erase step recorded for page pg, 0 when none was made
EraseRet(pg) ==
    IF LastStep("erase", pg) = {} THEN 0 ELSE (CHOOSE x \in LastStep("erase", pg) : TRUE).ret

\* what the page loop keeps of the result r of rom_erase_page
Erased(r) ==
    /\ flash' = r.flash
    /\ bus' = r.bus
    /\ hist' = Append(hist, Step("erase", page, cur_seg, cur_fseg, 0, r.ret, <<>>))

\* rom_erase_page(rom_start, rom_seg) for the current page
ErasePage ==
    /\ pc = "erase"
    /\ Erased(rom_erase_page(flash, rom_start, cur_seg, cmd_addr1, cmd_addr2))
    /\ pc' = "write"
    /\ UNCHANGED <<inputs, idmode, rom_seg, file_seg, rom_size, cur_seg, cur_fseg,
                   rom_start, eeprom_index, cmd_addr1, cmd_addr2, page, intr, out,
                   exit_code, diff>>

\* what the page loop keeps of the result r of rom_program_page
Programmed(r) ==
    /\ flash' = r.flash
    /\ bus' = r.bus
    /\ hist' = Append(hist, Step("program", page, cur_seg, cur_fseg, r.written, r.ret, <<>>))
    /\ pc' = AfterPage(page, EraseRet(page), r.ret)

\* rom_program_page(...) for the current page, then the advance to the next
ProgramPage ==
    /\ pc = "write"
    /\ Programmed(rom_program_page(flash, rom_start, cur_seg, cur_fseg, PageSize,
                                   eeproms[eeprom_index].page_write, cmd_addr1, cmd_addr2))
    /\ cur_seg' = NextPageSeg(cur_seg, PageSize)
    /\ cur_fseg' = NextPageSeg(cur_fseg, PageSize)
    /\ page' = page + 1
    /\ UNCHANGED <<inputs, idmode, rom_seg, file_seg, rom_size, rom_start, eeprom_index,
                   cmd_addr1, cmd_addr2, intr, out, exit_code, diff>>

\* a faulty variant of ProgramFinish: interrupts are left disabled
ProgramFinish_NoEnable ==
    /\ pc = "finish"
    /\ out' = Append(out, "Flash ROM has been programmed successfully")
    /\ pc' = "verify"
    /\ UNCHANGED <<inputs, idmode, flash, rom_seg, file_seg, rom_size, cur_seg,
                   cur_fseg, rom_start, eeprom_index, cmd_addr1, cmd_addr2, page,
                   intr, bus, hist, exit_code, diff>>

\* interrupts_enable() and the closing message of rom_program
ProgramFinish ==
    /\ pc = "finish"
    /\ intr' = TRUE
    /\ out' = Append(out, "Flash ROM has been programmed successfully")
    /\ pc' = "verify"
    /\ UNCHANGED <<inputs, idmode, flash, rom_seg, file_seg, rom_size, cur_seg,
                   cur_fseg, rom_start, eeprom_index, cmd_addr1, cmd_addr2, page,
                   bus, hist, exit_code, diff>>

\* if (mode & MODE_VERIFY) rom_verify(rom_seg, file_seg, rom_size); return 0
MainVerify ==
    /\ pc = "verify"
    /\ IF "v" \in mode
       THEN LET d == rom_verify(flash, idmode, rom_seg, file_seg, rom_size)
            IN  /\ diff' = d
                /\ out' = Append(out, IF d > 0 THEN "differences found"
                                      ELSE "No differences found")
       ELSE UNCHANGED <<diff, out>>
    /\ pc' = "done"
    /\ exit_code' = 0
    /\ UNCHANGED <<inputs, idmode, flash, rom_seg, file_seg, rom_size, cur_seg,
                   cur_fseg, rom_start, eeprom_index, cmd_addr1, cmd_addr2, page,
                   intr, bus, hist>>

Next ==
    \/ MainArgs
    \/ MainRead
    \/ MainLoad
    \/ MainChecksum
    \/ ProgramStart
    \/ Identify
    \/ Geometry
    \/ ErasePage
    \/ ProgramPage
    \/ ProgramFinish
    \/ MainVerify

Spec == Init /\ [][Next]_vars

(* ------------------------------------------------------------------ *)
(* Version 0.2 (src/xiflash.c): calibrate_delay and the page loop that   *)
(* multiplies the page size by the page index.  rom_identify, the        *)
(* geometry checks and the end of rom_program are those of version 0.5.  *)
(* ------------------------------------------------------------------ *)

CALIBRATION_LOOPS == 50000
WRITE_TIMEOUT == 10000
ERASE_POLLS == 1000
\* clock ticks per second of the C library the utility is built with
CLOCKS_PER_SEC == 1000

\* values clock() may return before the loop, and the ticks the loop may take
StartTimes == {0, 55, 65500}
ElapsedTimes == {0, 55, 110, 1000, 60000}

\* what a division by zero may leave in loops_per_1ms when the program
\* survives it
GarbageLoops == {0, 1, UINT_MOD - 1}

\* the value calibrate_delay stores for a non-zero elapsed time
LoopsPer1ms(elapsed) ==
    (((1000 * CALIBRATION_LOOPS) \div CLOCKS_PER_SEC) \div elapsed) % UINT_MOD

\* the offset of page pg: the product of two unsigned ints
PageOffset(page_size, pg) == (page_size * pg) % UINT_MOD

\* the bus record of a poll loop of version 0.2 on the byte at seg:>off
PollLoop02(seg, off, now, later, budget) ==
    <<[op |-> "poll", seg |-> seg, off |-> off, val |-> PollsMade(now, later, budget)]>>

\* rom_erase_block(rom_start:>0, rom_addr:>off): the command, then up to
\* ERASE_POLLS polls of the first byte
rom_erase_block(f, rom_st, seg, off, a1, a2) ==
    LET page_seg == SegAdd(seg, off \div PARAGRAPH)
        ws == EraseCommand(rom_st, page_seg, a1, a2)
        taken == /\ DevHasErase
                 /\ DevUnlocksErase(SubSeq(ws, 1, 5))
                 /\ InChip(Linear(page_seg, 0))
                 /\ ~dev.erase_dead
        f2 == IF taken THEN EraseSector(f, page_seg) ELSE f
        now == MemByte(f, Linear(page_seg, 0)) = \hFF
        later == MemByte(f2, Linear(page_seg, 0)) = \hFF
    IN  [ret |-> IF PollMatches(now, later, ERASE_POLLS) THEN 0 ELSE 1,
         flash |-> f2,
         bus |-> ws \o PollLoop02(page_seg, 0, now, later, ERASE_POLLS)]

\* rom_program_block, page-write branch: one command, the block, then up
\* to WRITE_TIMEOUT polls of its last byte
ProgramBlockPage(f, rom_st, page_seg, src, block_size, a1, a2) ==
    LET ws == ProgramCommand(rom_st, a1, a2)
        taken == DevUnlocksProgram(ws)
        n == IF dev.chip \in DOMAIN eeproms /\ eeproms[dev.chip].page_write = 0
             THEN 1 ELSE block_size
        f2 == WriteData(f, page_seg, src, n, taken)
        last == Linear(page_seg, block_size - 1)
        want == BufByte(src + block_size - 1)
        now == MemByte(f, last) = want
        later == MemByte(f2, last) = want
    IN  [ret |-> IF PollMatches(now, later, WRITE_TIMEOUT) THEN 0 ELSE 1,
         written |-> block_size,
         flash |-> f2,
         bus |-> ws \o <<[op |-> "data", seg |-> page_seg, off |-> 0, val |-> block_size]>>
                   \o PollLoop02(page_seg, block_size - 1, now, later, WRITE_TIMEOUT)]

\* rom_program_block, byte-write branch: command, byte and up to
\* WRITE_TIMEOUT polls of that byte for each offset, stopping at the first
\* byte whose polls run out
ProgramBlockByte(f, rom_st, page_seg, src, block_size, a1, a2) ==
    LET ws == ProgramCommand(rom_st, a1, a2)
        taken == DevUnlocksProgram(ws)
        bad == {o \in Unlatched(page_seg, block_size, taken /\ dev.lat < WRITE_TIMEOUT) :
                    MemByte(f, Linear(page_seg, o)) # BufByte(src + o)}
        stop == IF bad = {} THEN block_size
                ELSE CHOOSE o \in bad : \A o2 \in bad : o <= o2
        n == Min(stop + 1, block_size)
        now == MemByte(f, Linear(page_seg, n - 1)) = BufByte(src + n - 1)
    IN  [ret |-> IF stop = block_size THEN 0 ELSE 1,
         written |-> n,
         flash |-> WriteData(f, page_seg, src, n, taken),
         bus |-> ws \o <<[op |-> "data", seg |-> page_seg, off |-> 0, val |-> n]>>
                   \o PollLoop02(page_seg, n - 1, now, stop = block_size, WRITE_TIMEOUT)]

\* rom_program_block(rom_start:>0, rom_addr:>off, buf + off, block_size,
\* page_write)
rom_program_block(f, rom_st, seg, off, fseg, block_size, page_write, a1, a2) ==
    IF page_write # 0
    THEN ProgramBlockPage(f, rom_st, SegAdd(seg, off \div PARAGRAPH),
                          BufOffset(fseg, off), block_size, a1, a2)
    ELSE ProgramBlockByte(f, rom_st, SegAdd(seg, off \div PARAGRAPH),
                          BufOffset(fseg, off), block_size, a1, a2)

\* the image sizes and segments version 0.2 is run with
Sizes02 == {256, 512, 8192, 16384, 32768, 65536, 131072}
Segments02 == {-1, \hF000, \hE000}

\* main of version 0.2 up to the call of calibrate_delay: the file is
\* loaded, a 64 KiB image at the default segment goes to 0xF000
DefaultSeg02(seg, size) == IF size = 65536 /\ seg = \hF800 THEN \hF000 ELSE seg

Init02 ==
    /\ \E c \in {0, 1, 4}, a \in Segments02, sz \in Sizes02 :
          /\ sz % ChipPageSize(c) = 0
          /\ sz \div ChipPageSize(c) <= MaxPages
          /\ dev = NominalDev(c)
          /\ opt_a = a
          /\ file_size = sz
          /\ rom_size = sz
          /\ rom_seg = DefaultSeg02(ArgSeg(a), sz)
    /\ \E t \in StartTimes, e \in ElapsedTimes :
          /\ start_time = t
          /\ end_time = t + e
    /\ mode = {"p"}
    /\ opt_s = -1
    /\ img = 1
    /\ idmode = FALSE
    /\ flash = <<>>
    /\ pc = "calibrate"
    /\ file_seg = FILE_SEG0
    /\ cur_seg = 0
    /\ cur_fseg = 0
    /\ rom_start = 0
    /\ eeprom_index = -1
    /\ cmd_addr1 = PAIR_5555[1]
    /\ cmd_addr2 = PAIR_5555[2]
    /\ page = 0
    /\ intr = TRUE
    /\ bus = <<>>
    /\ hist = <<>>
    /\ out = <<>>
    /\ exit_code = -1
    /\ diff = -1
    /\ loops_per_1ms = 1

\* calibrate_delay() with its divisor elapsed, stored as loops
Calibrated(elapsed, loops) ==
    /\ loops_per_1ms' = loops
    /\ hist' = Append(hist, Step("calibrate", -1, 0, 0, elapsed, loops, <<>>))
    /\ pc' = "program"
    /\ UNCHANGED exit_code

\* calibrate_delay(): the quotient is formed whatever the elapsed time; a
\* zero divisor either ends the program in the divide-error handler or
\* leaves some value in loops_per_1ms
Calibrate ==
    /\ pc = "calibrate"
    /\ IF end_time - start_time # 0
       THEN Calibrated(end_time - start_time, LoopsPer1ms(end_time - start_time))
       ELSE \/ \E g \in GarbageLoops : Calibrated(0, g)
            \/ /\ pc' = "trap"
               /\ exit_code' = 255
               /\ hist' = Append(hist, Step("calibrate", -1, 0, 0, 0, -1, <<>>))
               /\ UNCHANGED loops_per_1ms
    /\ UNCHANGED <<mode, opt_a, opt_s, file_size, img, dev, start_time, end_time,
                   idmode, flash, rom_seg, file_seg, rom_size, cur_seg, cur_fseg,
                   rom_start, eeprom_index, cmd_addr1, cmd_addr2, page, intr, bus,
                   out, diff>>

\* what the page loop keeps of the result r of rom_erase_block
Erased02(r) ==
    /\ flash' = r.flash
    /\ bus' = r.bus
    /\ hist' = Append(hist, Step("erase", page, cur_seg, cur_fseg,
                                 PageOffset(PageSize, page), r.ret, <<>>))

\* rom_erase_block(rom_start:>0, rom_addr:>(page_size * page))
ErasePage02 ==
    /\ pc = "erase"
    /\ Erased02(rom_erase_block(flash, rom_start, cur_seg, PageOffset(PageSize, page),
                                cmd_addr1, cmd_addr2))
    /\ pc' = "write"
    /\ UNCHANGED <<inputs, idmode, rom_seg, file_seg, rom_size, cur_seg, cur_fseg,
                   rom_start, eeprom_index, cmd_addr1, cmd_addr2, page, intr, out,
                   exit_code, diff>>

\* what the page loop keeps of the result r of rom_program_block
Programmed02(r) ==
    /\ flash' = r.flash
    /\ bus' = r.bus
    /\ hist' = Append(hist, Step("program", page, cur_seg, cur_fseg,
                                 PageOffset(PageSize, page), r.ret, <<>>))
    /\ pc' = AfterPage(page, EraseRet(page), r.ret)

\* rom_program_block(rom_start:>0, rom_addr:>(page_size * page),
\* buf + (page_size * page), page_size, page_write), then page++
ProgramPage02 ==
    /\ pc = "write"
    /\ Programmed02(rom_program_block(flash, rom_start, cur_seg,
                                      PageOffset(PageSize, page), cur_fseg, PageSize,
                                      eeproms[eeprom_index].page_write,
                                      cmd_addr1, cmd_addr2))
    /\ page' = page + 1
    /\ UNCHANGED <<inputs, idmode, rom_seg, file_seg, rom_size, cur_seg, cur_fseg,
                   rom_start, eeprom_index, cmd_addr1, cmd_addr2, intr, out,
                   exit_code, diff>>

Next02 ==
    \/ Calibrate
    \/ ProgramStart
    \/ Identify
    \/ Geometry
    \/ ErasePage02
    \/ ProgramPage02
    \/ ProgramFinish

Spec02 == Init02 /\ [][Next02]_vars


(* ------------------------------------------------------------------ *)
(* Properties                                                           *)
(* ------------------------------------------------------------------ *)

\* the steps of the kind what recorded so far, in order
StepsOf(what) == SelectSeq(hist, LAMBDA h : h.step = what)

\* the paragraphs of the region the run works on
TargetParagraphs ==
    {SegAdd(rom_seg, j) : j \in 0..(((rom_size + PARAGRAPH - 1) \div PARAGRAPH) - 1)}

\* the device latches data writes correctly: no cell is stuck, a byte reads
\* back within the polls of either write algorithm, and every byte of the
\* target region is backed by the chip (or by RAM)
LatchesCorrectly ==
    /\ dev.stuck = {}
    /\ dev.lat < BYTE_WRITE_TIMEOUT
    /\ \A sg \in TargetParagraphs :
          InChip(Linear(sg, 0)) \/ InRam(Linear(sg, PARAGRAPH - 1))

\* C1: round trip. When the device latches data writes correctly and a run
\* programs an image and then verifies it against the same file buffer,
\* rom_verify counts zero differences and no program step returned 1.
C1_RoundTrip ==
    (pc = "done" /\ {"p", "v"} \subseteq mode /\ LatchesCorrectly)
        => /\ diff = 0
           /\ \A k \in 1..Len(hist) : hist[k].step = "program" => hist[k].ret = 0

\* a run of C1: a page-write chip without erase, every page of a
\* MaxSmallPages-page image programmed, verified with zero differences
C1_Witness ==
    /\ pc = "done" /\ {"p", "v"} \subseteq mode /\ LatchesCorrectly
    /\ eeprom_index = 1
    /\ Len(StepsOf("program")) = MaxSmallPages
    /\ Len(StepsOf("erase")) = 0
    /\ diff = 0


\* the data bursts that reached the bus so far, in order
DataWrites == SelectSeq(flash, LAMBDA w : w.kind = "data")

\* the page loop has been entered in this run
InPageLoop == "p" \in mode /\ pc \in {"erase", "write", "finish", "verify", "done"}

\* paragraphs per page
PageParagraphs == PageSize \div PARAGRAPH

\* the offsets inside a page the translation is compared at: all of them
\* on the small pages, the first paragraphs and the last byte on the others
PageOffsets == 0..(Min(PageSize, 128) - 1) \cup {PageSize - 1}

\* the image ends at or below the 1 MiB boundary
FitsBelow1MiB == PARAGRAPH * rom_seg + rom_size <= LINEAR_MOD

\* C2: address translation of the segment-advancing rom_program. The burst
\* of page p goes to segment rom_seg + p * (page_size / 16) (a 16-bit sum)
\* at offsets 0 .. page_size - 1, all below 65536, and takes its bytes from
\* distance p * page_size of the file; so logical offset o = p * page_size + j
\* lands on linear address 16 * rom_seg + o (a 20-bit sum; the plain sum
\* when the image ends below 1 MiB), also beyond the first 64 KiB; when the
\* loop is through, there is one burst per page.
C2_AddressTranslation ==
    InPageLoop =>
        /\ PageSize - 1 < 65536
        /\ Len(DataWrites) = Len(StepsOf("program"))
        /\ \A k \in 1..Len(DataWrites) :
              /\ DataWrites[k].seg = SegAdd(rom_seg, (k - 1) * PageParagraphs)
              /\ DataWrites[k].src = (k - 1) * PageSize
              /\ DataWrites[k].n = StepsOf("program")[k].n
              /\ DataWrites[k].n <= PageSize
              /\ StepsOf("program")[k].ret = 0 => DataWrites[k].n = PageSize
              /\ \A j \in PageOffsets :
                    /\ Linear(DataWrites[k].seg, j)
                          = (PARAGRAPH * rom_seg + (k - 1) * PageSize + j) % LINEAR_MOD
                    /\ BufByte(DataWrites[k].src + j) = FileByte((k - 1) * PageSize + j)
                    /\ FitsBelow1MiB =>
                          /\ DataWrites[k].seg = rom_seg + (k - 1) * PageParagraphs
                          /\ PARAGRAPH * DataWrites[k].seg + j
                                = PARAGRAPH * rom_seg + (k - 1) * PageSize + j
        /\ pc \in {"finish", "verify", "done"} => Len(DataWrites) = NumPages

\* a run of C2: an image of more than 64 KiB programmed to its last page,
\* which lies in the window after the one the image starts in
C2_Witness ==
    /\ InPageLoop /\ pc = "done"
    /\ rom_size > 65536 /\ FitsBelow1MiB
    /\ Len(DataWrites) = NumPages
    /\ DataWrites[NumPages].seg >= rom_seg + \h1000
    /\ DataWrites[NumPages].n = PageSize


\* the step made last is a call of rom_identify, whose accesses bus holds
AfterIdentify == Len(hist) > 0 /\ hist[Len(hist)].step = "identify"

\* positions of the accesses of the kind op in bus
BusAt(op) == {i \in 1..Len(bus) : bus[i].op = op}

\* C3: on every path through rom_identify the exit sequence is written
\* after the last identification read and before the return. The last
\* three writes of the call are 0xAA, 0x55, 0xF0 to the window probed, at
\* the command addresses of the pair in use; no read and no other write
\* follows them; the delay and interrupts_enable() end the call.
C3_ExitSequence ==
    AfterIdentify =>
        \E i \in 1..(Len(bus) - 4) :
            /\ bus[i] = W(hist[Len(hist)].seg, cmd_addr1, \hAA)
            /\ bus[i + 1] = W(hist[Len(hist)].seg, cmd_addr2, \h55)
            /\ bus[i + 2] = W(hist[Len(hist)].seg, cmd_addr1, \hF0)
            /\ bus[i + 3] = Delay(IDENTIFY_DELAY)
            /\ bus[i + 4] = Sti
            /\ i + 4 = Len(bus)
            /\ \A r \in BusAt("r") : r < i
            /\ <<cmd_addr1, cmd_addr2>> \in {PAIR_5555, PAIR_555}

\* a call of C3: no entry sequence was answered, all three were tried
\* (3 + 6 + 6 writes) and the exit sequence follows them
C3_Witness ==
    /\ AfterIdentify
    /\ hist[Len(hist)].ret = -1
    /\ Cardinality(BusAt("w")) = 18
    /\ bus[Len(bus) - 2] = W(hist[Len(hist)].seg, PAIR_555[1], \hF0)


\* the baseline rom_identify read in the call made last
Baseline == <<hist[Len(hist)].id[3], hist[Len(hist)].id[4]>>

\* positions in bus of the write that completes an entry sequence: 0x90
\* for the primary one, 0x60 for the alternate one
EntryMarks == {i \in BusAt("w") : bus[i].val \in {\h90, \h60}}

\* positions in bus of the second read of an identification read pair,
\* the baseline pair (positions 1 and 2) left out
IdReadsAt == {i \in BusAt("r") : bus[i].off = 1 /\ i > 2}

\* the two bytes of the read pair that ends at position i of bus
ReadPair(i) == <<bus[i - 1].val, bus[i].val>>

\* the read pair made last before position i of bus
PairBefore(i) ==
    ReadPair(CHOOSE r \in IdReadsAt : r < i /\ \A r2 \in IdReadsAt : r2 < i => r2 <= r)

\* C4: rom_identify escalates in a fixed order. The two baseline bytes are
\* read at offsets 0 and 1 before any write. There is one primary entry
\* (0x90), first of all entries and through 0x5555 / 0x2AAA. An alternate
\* entry (0x80 then 0x60) is written only after a read pair that followed
\* the entry before it and equalled the baseline. The pair 0x555 / 0x2AA is
\* used for an entry only after an alternate entry through 0x5555 / 0x2AAA
\* whose read pair equalled the baseline. After a read pair that differs
\* from the baseline no entry sequence is written; after one that equals
\* it the next entry is written, until the third.
C4_Escalation ==
    AfterIdentify =>
        /\ bus[1].op = "r" /\ bus[1].off = 0
        /\ bus[2].op = "r" /\ bus[2].off = 1
        /\ Baseline = <<bus[1].val, bus[2].val>>
        /\ \A i \in BusAt("w") : i > 2
        /\ Cardinality({i \in EntryMarks : bus[i].val = \h90}) = 1
        /\ \A i \in EntryMarks :
              IF bus[i].val = \h90
              THEN /\ \A i2 \in EntryMarks : i <= i2
                   /\ bus[i].off = PAIR_5555[1]
              ELSE /\ bus[i - 3] = W(bus[i].seg, bus[i].off, \h80)
                   /\ \E m \in EntryMarks : \E r \in IdReadsAt :
                         /\ m < r /\ r < i - 5
                         /\ \A m2 \in EntryMarks : ~(m < m2 /\ m2 < i)
                         /\ ReadPair(r) = Baseline
                   /\ bus[i].off = PAIR_555[1] =>
                         \E m \in EntryMarks :
                            /\ m < i /\ bus[m].val = \h60 /\ bus[m].off = PAIR_5555[1]
                            /\ PairBefore(i) = Baseline
        /\ \A r \in IdReadsAt :
              /\ ReadPair(r) # Baseline => \A m \in EntryMarks : m < r
              /\ (ReadPair(r) = Baseline /\ Cardinality({m \in EntryMarks : m < r}) < 3)
                    => \E m \in EntryMarks : m > r
        /\ Cardinality(EntryMarks) <= 3

\* a call of C4: the primary entry read the baseline again, the alternate
\* entry through 0x5555 / 0x2AAA was answered, and nothing was tried after it
C4_Witness ==
    /\ AfterIdentify
    /\ Cardinality(EntryMarks) = 2
    /\ hist[Len(hist)].ret # -1
    /\ <<cmd_addr1, cmd_addr2>> = PAIR_5555

\* the ids and the baseline of the call of rom_identify recorded in h
IdsOf(h) == <<h.id[1], h.id[2]>>
BaselineOf(h) == <<h.id[3], h.id[4]>>

\* the registry entries whose ids are those of h
EntriesOf(h) ==
    {i \in 0..(NUM_DEVICES - 1) :
        <<eeproms[i].vendor_id, eeproms[i].device_id>> = IdsOf(h)}

\* C5: rom_identify returns registry index i (0 .. 4) exactly when the ids
\* read last differ from the baseline and are those of entry i; it returns
\* -1 when they equal the baseline, and when they differ from it but are in
\* no entry.
C5_ReturnIndex ==
    \A k \in 1..Len(hist) :
        hist[k].step = "identify" =>
            /\ hist[k].ret \in -1..(NUM_DEVICES - 1)
            /\ \A i \in 0..(NUM_DEVICES - 1) :
                  hist[k].ret = i <=> (IdsOf(hist[k]) # BaselineOf(hist[k])
                                       /\ i \in EntriesOf(hist[k]))
            /\ IdsOf(hist[k]) = BaselineOf(hist[k]) => hist[k].ret = -1
            /\ (IdsOf(hist[k]) # BaselineOf(hist[k]) /\ EntriesOf(hist[k]) = {})
                  => hist[k].ret = -1
            /\ hist[k].ret = -1 => (\/ IdsOf(hist[k]) = BaselineOf(hist[k])
                                    \/ EntriesOf(hist[k]) = {})

\* a call of C5: the chip answered with ids that differ from the baseline
\* and are in no registry entry, and rom_identify returned -1
C5_Witness ==
    /\ AfterIdentify
    /\ hist[Len(hist)].ret = -1
    /\ IdsOf(hist[Len(hist)]) # BaselineOf(hist[Len(hist)])
    /\ IdsOf(hist[Len(hist)]) = ChipId(UNKNOWN_CHIP)


\* the calls of rom_identify that returned an index, in order
Identifications == SelectSeq(hist, LAMBDA h : h.step = "identify" /\ h.ret # -1)

\* the step made last is an erase or a program step, whose accesses bus holds
AfterCommand == Len(hist) > 0 /\ hist[Len(hist)].step \in {"erase", "program"}

\* the unlock and command writes in bus use the pair a1, a2: 0xAA and the
\* opcode go to a1, 0x55 goes to a2, all in the window rom_start
UsesPair(a1, a2) ==
    \A i \in BusAt("w") :
        /\ bus[i].val \in {\hAA, \h80, \hA0} => bus[i].off = a1 /\ bus[i].seg = rom_start
        /\ bus[i].val = \h55 => bus[i].off = a2 /\ bus[i].seg = rom_start

\* C6: every erase and program command sequence of a run uses the pair
\* through which the successful identification engaged the device, and the
\* pair is not modified from the return of that rom_identify to the end of
\* rom_program. One call of rom_identify at most succeeds; the pair it
\* leaves is the one the chip decodes; cmd_addr1, cmd_addr2 hold it in every
\* later state; the command writes of every erase and program step use it.
C6_SamePair ==
    /\ Len(Identifications) <= 1
    /\ Len(Identifications) = 1 =>
          /\ <<Identifications[1].a1, Identifications[1].a2>> = dev.pair
          /\ <<cmd_addr1, cmd_addr2>> = <<Identifications[1].a1, Identifications[1].a2>>
          /\ \A k \in 1..Len(hist) :
                hist[k].step \in {"erase", "program"} =>
                    <<hist[k].a1, hist[k].a2>> = dev.pair
    /\ AfterCommand =>
          /\ Len(Identifications) = 1
          /\ Cardinality(BusAt("w")) >= 3
          /\ UsesPair(Identifications[1].a1, Identifications[1].a2)

\* a run of C6: a chip identified through 0x555 / 0x2AA has a page erased
C6_Witness ==
    /\ AfterCommand
    /\ hist[Len(hist)].step = "erase"
    /\ dev.pair = PAIR_555
    /\ UsesPair(PAIR_555[1], PAIR_555[2])
    /\ Len(StepsOf("program")) >= 1

\* C7: an erase timeout is soft. A page whose rom_erase_page returned 1 is
\* programmed next, and every page after it is erased and programmed: the
\* steps of the page loop are erase 0, program 0, erase 1, program 1, ...
\* whatever the erase steps returned, up to the last page.
C7_EraseTimeoutSoft ==
    (InPageLoop /\ \E k \in 1..Len(hist) : hist[k].step = "erase" /\ hist[k].ret = 1) =>
        /\ \A k \in 1..Len(hist) :
              (hist[k].step = "erase" /\ hist[k].ret = 1) =>
                  /\ k = Len(hist) => pc = "write" /\ page = hist[k].page
                  /\ k < Len(hist) =>
                        /\ hist[k + 1].step = "program"
                        /\ hist[k + 1].page = hist[k].page
                        /\ hist[k + 1].seg = hist[k].seg
                  /\ \A p \in (hist[k].page + 1)..(NumPages - 1) :
                        \/ pc \in {"erase", "write"} /\ page <= p
                        \/ /\ \E k2 \in (k + 1)..Len(hist) :
                                 hist[k2].step = "erase" /\ hist[k2].page = p
                           /\ \/ pc = "write" /\ page = p
                              \/ \E k2 \in (k + 1)..Len(hist) :
                                    hist[k2].step = "program" /\ hist[k2].page = p
        /\ pc \in {"finish", "verify", "done"} =>
              Len(StepsOf("program")) = NumPages /\ Len(StepsOf("erase")) = NumPages

\* a run of C7: the erase of page 0 timed out, page 0 was programmed and
\* so was the page after it
C7_Witness ==
    /\ InPageLoop /\ pc = "done"
    /\ \E k \in 1..Len(hist) :
          hist[k].step = "erase" /\ hist[k].ret = 1 /\ hist[k].page = 0
    /\ \E k \in 1..Len(hist) : hist[k].step = "program" /\ hist[k].page = 0
    /\ \E k \in 1..Len(hist) : hist[k].step = "program" /\ hist[k].page = 1


\* msg has been printed
Printed(msg) == \E i \in 1..Len(out) : out[i] = msg

\* some erase or program step of the run returned 1
SomeStepFailed ==
    \E k \in 1..Len(hist) : hist[k].step \in {"erase", "program"} /\ hist[k].ret = 1

\* C8: a page write failure is hard. When the program step of a page
\* returned 1, no erase or program step follows it in the run.
C8_WriteFailureHard ==
    \A k \in 1..Len(hist) :
        (hist[k].step = "program" /\ hist[k].ret = 1) =>
            \A k2 \in (k + 1)..Len(hist) : hist[k2].step \notin {"erase", "program"}

\* a run against C8: the program step of page 0 returned 1 and page 1 was
\* programmed after it
C8_Continues ==
    \E k \in 1..Len(hist) :
        /\ hist[k].step = "program" /\ hist[k].ret = 1 /\ hist[k].page = 0
        /\ \E k2 \in (k + 1)..Len(hist) : hist[k2].step = "program" /\ hist[k2].page = 1

\* C9: failures are surfaced at the end of the run. The success message of
\* rom_program is printed only if no erase step timed out and every program
\* step returned 0, and a run in which a step failed does not end with
\* exit code 0.
C9_FailuresSurfaced ==
    /\ Printed("Flash ROM has been programmed successfully") => ~SomeStepFailed
    /\ (pc = "done" /\ SomeStepFailed) => exit_code # 0

\* a run against C9: a program step returned 1, the success message was
\* printed and the run ended with exit code 0
C9_SuccessAfterFailure ==
    /\ pc = "done" /\ exit_code = 0
    /\ \E k \in 1..Len(hist) : hist[k].step = "program" /\ hist[k].ret = 1
    /\ Printed("Flash ROM has been programmed successfully")

\* the step made last is a program step; flash is the memory it left
AfterProgram == Len(hist) > 0 /\ hist[Len(hist)].step = "program"

\* byte o of the page programmed last reads back as the source byte
ReadsBack(o) ==
    ReadByte(flash, idmode, hist[Len(hist)].seg, o)
        = BufByte(BufOffset(hist[Len(hist)].fseg, o))

\* C10 as claimed: whenever rom_program_page returns 0, every byte of the
\* page reads back as the source byte, in page-write mode as well as in
\* byte-write mode.
C10_AllBytesReadBack ==
    (AfterProgram /\ hist[Len(hist)].ret = 0) =>
        \A o \in 0..(PageSize - 1) : ReadsBack(o)

\* C10 as the code has it: whenever rom_program_page returns 0, in
\* byte-write mode every byte of the page reads back as the source byte,
\* and in page-write mode the last byte of the page does (the only byte
\* the page-write branch reads).
C10_PolledBytesReadBack ==
    (AfterProgram /\ hist[Len(hist)].ret = 0) =>
        IF eeproms[eeprom_index].page_write # 0
        THEN ReadsBack(PageSize - 1)
        ELSE \A o \in 0..(PageSize - 1) : ReadsBack(o)

\* a step of C10: page-write mode returned 0, the last byte reads back and
\* a byte before it does not
C10_Witness ==
    /\ AfterProgram /\ hist[Len(hist)].ret = 0
    /\ eeproms[eeprom_index].page_write # 0
    /\ ReadsBack(PageSize - 1)
    /\ \E o \in 0..(PageSize - 2) : ~ReadsBack(o)


\* the program step made last ran the page-write branch / the byte-write branch
AfterPageWrite == AfterProgram /\ eeproms[eeprom_index].page_write # 0
AfterByteWrite == AfterProgram /\ eeproms[eeprom_index].page_write = 0

\* the step made last
Last == hist[Len(hist)]

\* C11: in page-write mode rom_program_page issues exactly one unlock
\* sequence for the page (0xAA, 0x55, 0xA0 at the command addresses of the
\* window), then writes all page_size bytes in increasing order from offset
\* 0 with no command write among them, and only then polls; it polls the
\* last byte of the page alone, returns 0 at the first poll that reads the
\* expected byte and 1 when PAGE_WRITE_TIMEOUT polls have not.
C11_PageWrite ==
    AfterPageWrite =>
        /\ Len(bus) = 6
        /\ SubSeq(bus, 1, 3) = <<W(rom_start, cmd_addr1, \hAA),
                                 W(rom_start, cmd_addr2, \h55),
                                 W(rom_start, cmd_addr1, \hA0)>>
        /\ bus[4] = [op |-> "data", seg |-> Last.seg, off |-> 0, val |-> PageSize]
        /\ DataWrites[Len(DataWrites)].seg = Last.seg
        /\ DataWrites[Len(DataWrites)].n = PageSize
        /\ bus[5].op = "poll" /\ bus[5].seg = Last.seg /\ bus[5].off = PageSize - 1
        /\ bus[5].val \in 1..PAGE_WRITE_TIMEOUT
        /\ Last.ret = 0 => /\ ReadsBack(PageSize - 1)
                           /\ bus[5].val \in {1, dev.lat + 1}
        /\ Last.ret = 1 => bus[5].val = PAGE_WRITE_TIMEOUT
        /\ Last.ret \in {0, 1}

\* a page was written in page-write mode and read back at its first poll,
\* after the polls of an earlier page of the run had run out
C11_Witness ==
    /\ AfterPageWrite /\ Last.ret = 0 /\ bus[5].val = 1
    /\ \E k \in 1..Len(hist) : hist[k].step = "program" /\ hist[k].ret = 1


\* the memory before the data write of the step made last
FlashBefore == SubSeq(flash, 1, Len(flash) - 1)

\* byte o of the page programmed last is as it was before the step
Untouched(o) ==
    MemByte(flash, Linear(Last.seg, o)) = MemByte(FlashBefore, Linear(Last.seg, o))

LatchesAtOnce ==
    /\ dev.lat = 0
    /\ flash[Len(flash)].taken
    /\ Unlatched(Last.seg, PageSize, TRUE) = {}

\* byte o of the page programmed last never latches: it did not hold the
\* byte expected before the step, and it is stuck or does not come to hold
\* it within any poll budget
NeverLatches(o) ==
    /\ MemByte(FlashBefore, Linear(Last.seg, o)) # BufByte(BufOffset(Last.fseg, o))
    /\ \/ dev.lat >= PAGE_WRITE_TIMEOUT
       \/ ~Latches(Linear(Last.seg, o), flash[Len(flash)].taken)

\* C13: poll budget of the write engines. Against a device that latches
\* every write within one poll, page write and byte write return 0. Against
\* a device that never latches, page write returns 1 having polled the last
\* byte of the page PAGE_WRITE_TIMEOUT times, and byte write returns 1
\* having written the first byte only and polled it BYTE_WRITE_TIMEOUT
\* times. No poll loop of either engine makes more polls than its budget.
C13_PollBudget ==
    AfterProgram =>
        /\ bus[5].op = "poll"
        /\ AfterPageWrite => bus[5].val <= PAGE_WRITE_TIMEOUT
        /\ AfterByteWrite => bus[5].val <= BYTE_WRITE_TIMEOUT
        /\ LatchesAtOnce => Last.ret = 0 /\ bus[5].val = 1
        /\ (AfterPageWrite /\ NeverLatches(PageSize - 1)) =>
              /\ Last.ret = 1
              /\ bus[5].off = PageSize - 1
              /\ bus[5].val = PAGE_WRITE_TIMEOUT
        /\ (AfterByteWrite /\ NeverLatches(0)) =>
              /\ Last.ret = 1
              /\ Last.n = 1
              /\ bus[5].off = 0
              /\ bus[5].val = BYTE_WRITE_TIMEOUT

\* a page write against a device that does not latch within any budget,
\* and a byte write whose first byte is a cell that never latches
C13_Witness ==
    \/ AfterPageWrite /\ NeverLatches(PageSize - 1) /\ dev.lat >= PAGE_WRITE_TIMEOUT
                      /\ Last.page > 0
    \/ AfterByteWrite /\ NeverLatches(0) /\ dev.lat >= PAGE_WRITE_TIMEOUT /\ Last.page > 0


\* the step made last is an erase step, whose accesses bus holds
AfterErase == Len(hist) > 0 /\ Last.step = "erase"

\* C14: rom_erase_page writes, in this order, 0xAA to cmd_addr1, 0x55 to
\* cmd_addr2, 0x80 to cmd_addr1, 0xAA to cmd_addr1 and 0x55 to cmd_addr2 in
\* the command window, then 0x30 to the first byte of the target page. It
\* then polls that first byte: it returns 0 at the first poll that reads
\* 0xFF, and 1 after exactly ERASE_TIMEOUT polls none of which read 0xFF.
\* Every poll that does not read 0xFF is followed by one write delay, so
\* one delay lies between any two consecutive polls.
C14_EraseSequence ==
    AfterErase =>
        /\ Len(bus) = 8
        /\ SubSeq(bus, 1, 6) = <<W(rom_start, cmd_addr1, \hAA),
                                 W(rom_start, cmd_addr2, \h55),
                                 W(rom_start, cmd_addr1, \h80),
                                 W(rom_start, cmd_addr1, \hAA),
                                 W(rom_start, cmd_addr2, \h55),
                                 W(Last.seg, 0, \h30)>>
        /\ bus[7].op = "poll" /\ bus[7].seg = Last.seg /\ bus[7].off = 0
        /\ bus[7].val \in 1..ERASE_TIMEOUT
        /\ Last.ret \in {0, 1}
        /\ Last.ret = 0 =>
              /\ MemByte(flash, Linear(Last.seg, 0)) = \hFF
              /\ bus[7].val \in {1, dev.lat + 1}
              /\ bus[8] = Delay(WRITE_DELAY * (bus[7].val - 1))
        /\ Last.ret = 1 =>
              /\ bus[7].val = ERASE_TIMEOUT
              /\ bus[8] = Delay(WRITE_DELAY * ERASE_TIMEOUT)

\* an erase ended at its second poll, one delay after the first
C14_Witness ==
    AfterErase /\ Last.ret = 0 /\ bus[7].val = 2 /\ bus[8].val = WRITE_DELAY


\* C15: critical section of the batch. Every erase and program step of
\* rom_program, with all its command and data writes, runs while
\* interrupts are disabled; no step of the page loop enables or disables
\* them; they stay disabled until the last page has been processed and are
\* enabled then, whatever the erase and program steps returned.
C15_CriticalSection ==
    /\ \A k \in 1..Len(hist) :
          hist[k].step \in {"erase", "program"} => ~hist[k].ie
    /\ AfterCommand => BusAt("cli") = {} /\ BusAt("sti") = {}
    /\ ("p" \in mode /\ pc \in {"erase", "write"}) => ~intr /\ page < NumPages
    /\ ("p" \in mode /\ pc = "finish") => ~intr /\ page = NumPages
    /\ ("p" \in mode /\ pc \in {"verify", "done"}) =>
          intr /\ Len(StepsOf("program")) = NumPages

\* the batch is over and interrupts are enabled, after an erase step and a
\* program step of the run had returned 1
C15_Witness ==
    /\ "p" \in mode /\ pc = "verify" /\ intr
    /\ \E k \in 1..Len(hist) : hist[k].step = "erase" /\ hist[k].ret = 1
    /\ \E k \in 1..Len(hist) : hist[k].step = "program" /\ hist[k].ret = 1


\* no erase or program step was made, and the memory is as it was at the start
NothingDestroyed ==
    /\ \A k \in 1..Len(hist) : hist[k].step \notin {"erase", "program"}
    /\ flash = <<>>

\* rom_program has probed every candidate window and rom_identify returned
\* -1 each time
NoWindowIdentified ==
    /\ "p" \in mode /\ pc # "identify"
    /\ Len(StepsOf("identify")) > 0
    /\ \A k \in 1..Len(hist) : hist[k].step = "identify" => hist[k].ret = -1

\* a device was identified whose page size does not divide the image size
SizeMismatch ==
    /\ "p" \in mode /\ pc # "identify"
    /\ Len(Identifications) > 0
    /\ rom_size % eeproms[eeprom_index].page_size # 0

\* C16: configuration errors stop the run before anything destructive.
\* When rom_identify returned -1 at every candidate window, or the image
\* size is not a multiple of the page size of the device detected, no erase
\* command sequence, no program command sequence and no data write is
\* issued to the device, and the process exits with a non-zero code.
C16_ConfigErrors ==
    /\ NoWindowIdentified => pc = "exit" /\ exit_code # 0 /\ NothingDestroyed
    /\ SizeMismatch =>
          /\ pc \in {"geometry", "exit"}
          /\ pc = "exit" => exit_code # 0
          /\ NothingDestroyed

\* the run ended on a device no window identified, after both windows of
\* the BIOS area had been probed
C16_Witness ==
    /\ NoWindowIdentified /\ pc = "exit" /\ exit_code = 1
    /\ Len(StepsOf("identify")) = 2


\* the run was rejected for its geometry
GeometryRejected ==
    /\ pc = "exit" /\ exit_code = 10
    /\ Printed("ROM image size is not a multiply of the flash page size")

\* C17 as claimed: an image whose size is not a multiple of the page size
\* is rejected before the program has performed any write to the device
\* window.
C17_RejectedBeforeAnyWrite ==
    GeometryRejected =>
        /\ BusAt("w") = {}
        /\ \A k \in 1..Len(hist) : hist[k].step # "identify"

\* C17, amended: an image whose size is not a multiple of the page size of
\* the device detected (24576 bytes for a page size of 16384 among them) is
\* rejected, with exit code 10, before any erase or program command and
\* before any data write. The page size is known from identification only,
\* so the writes of rom_identify have been made by then, and no others: the
\* last of them is the exit sequence 0xAA, 0x55, 0xF0, and the memory of
\* the device is as it was.
C17_RejectedBeforeProgramming ==
    SizeMismatch =>
        /\ pc \in {"geometry", "exit"}
        /\ pc = "exit" => GeometryRejected
        /\ NothingDestroyed
        /\ AfterIdentify /\ Last.ret = eeprom_index
        /\ BusAt("w") # {}
        /\ \E i \in BusAt("w") :
              /\ bus[i].val = \hF0
              /\ bus[i - 1].val = \h55 /\ bus[i - 2].val = \hAA
              /\ \A i2 \in BusAt("w") : i2 <= i

\* an image of 24576 bytes was rejected on a device with 16384-byte pages
C17_Witness ==
    /\ GeometryRejected /\ SizeMismatch
    /\ rom_size = 24576 /\ eeproms[eeprom_index].page_size = 16384


\* a device was identified and the ROM segment requested is not a multiple
\* of the paragraphs of one of its pages
Unaligned ==
    /\ "p" \in mode /\ pc # "identify"
    /\ Len(Identifications) > 0
    /\ rom_seg % (eeproms[eeprom_index].page_size \div PARAGRAPH) # 0

\* C18: an origin that is not page-aligned is fatal. When the ROM segment
\* requested is not a multiple of page_size / 16, rom_program aborts: no
\* page is erased or programmed and the run ends with a non-zero exit code.
C18_UnalignedFatal ==
    Unaligned =>
        /\ NothingDestroyed
        /\ pc \in {"geometry", "exit"}
        /\ pc = "exit" => exit_code # 0

\* a run with an unaligned origin printed the page-boundary message, went
\* on to erase and program every page, and ended with exit code 0
C18_ProgramsUnaligned ==
    /\ Unaligned /\ pc = "done" /\ exit_code = 0
    /\ Printed("Specified ROM segment doesn't start on the page boundary")
    /\ Printed("Flash ROM has been programmed successfully")
    /\ Len(StepsOf("erase")) = NumPages /\ Len(StepsOf("program")) = NumPages
    /\ NumPages > 0


\* the identify steps of the run in which the device answered with ids in no
\* registry entry: the ids read differ from the resting bytes and
\* rom_identify returned -1
Unsupported(h) ==
    /\ h.step = "identify" /\ h.ret = -1
    /\ IdsOf(h) # BaselineOf(h)
    /\ EntriesOf(h) = {}

\* C19: an unsupported device is fatal and not retried. When a device
\* answers identification with a vendor/device pair absent from the
\* registry, the run ends with an error, and no further identification
\* attempt is made, at this window or at any other.
C19_UnsupportedFatal ==
    \A k \in 1..Len(hist) :
        Unsupported(hist[k]) =>
            /\ pc = "exit" /\ exit_code # 0
            /\ \A k2 \in (k + 1)..Len(hist) : hist[k2].step # "identify"

\* a device answered at 0xF000 with ids in no registry entry, and
\* rom_program went on to probe the window at 0xE000
C19_ProbesAgain ==
    /\ Len(hist) >= 2
    /\ Unsupported(hist[Len(hist) - 1]) /\ hist[Len(hist) - 1].seg = \hF000
    /\ Last.step = "identify" /\ Last.seg = \hE000
    /\ Printed("Unsupported flash ROM type")


\* the erase and program steps of the run, in the order they were made
PageSteps == SelectSeq(hist, LAMBDA h : h.step \in {"erase", "program"})

\* the steps the page loop makes for one page of the device detected
StepsPerPage == IF eeproms[eeprom_index].need_erase # 0 THEN 2 ELSE 1

\* C20: no interleaving between pages. rom_program handles the pages in
\* strictly increasing index order. On a device that needs erase the steps
\* of the run are erase 0, program 0, erase 1, program 1, ...: the erase
\* step of a page has returned, with 0 or 1, before the program step of
\* that page starts, and the program step of page p has returned before
\* any step of page p + 1. On a device that does not need erase the steps
\* are program 0, program 1, ... and no erase sequence is ever issued.
\* Every step is made for the page at rom_seg + p * page_size / 16.
C20_NoInterleaving ==
    InPageLoop =>
        /\ Len(PageSteps) <= StepsPerPage * NumPages
        /\ \A i \in 1..Len(PageSteps) :
              /\ PageSteps[i].page = (i - 1) \div StepsPerPage
              /\ PageSteps[i].step =
                    IF StepsPerPage = 2 /\ i % 2 = 1 THEN "erase" ELSE "program"
              /\ PageSteps[i].ret \in {0, 1}
              /\ PageSteps[i].seg =
                    SegAdd(rom_seg, PageSteps[i].page * PageParagraphs)
        /\ eeproms[eeprom_index].need_erase = 0 =>
              /\ \A w \in 1..Len(flash) : flash[w].kind # "erase"
              /\ AfterCommand => \A i \in BusAt("w") : bus[i].val \notin {\h80, \h30}
        /\ pc \in {"finish", "verify", "done"} =>
              Len(PageSteps) = StepsPerPage * NumPages

\* a batch of at least two pages on a device that needs erase is over,
\* and one of its erase steps had timed out
C20_Witness ==
    /\ InPageLoop /\ pc = "verify" /\ StepsPerPage = 2 /\ NumPages >= 2
    /\ \E i \in 1..Len(PageSteps) : PageSteps[i].step = "erase" /\ PageSteps[i].ret = 1


\* the run is over
Terminated == pc \in {"done", "exit"}

\* an upper bound of the steps a batch can take: two for each page of the
\* smallest page size the registry knows, and the steps around the loop
TopRank == 4 + 2 * (file_size \div eeproms[1].page_size)

\* the steps the run can still take, at most
Rank ==
    CASE pc = "args" -> TopRank + 7
      [] pc = "read" -> TopRank + 6
      [] pc = "load" -> TopRank + 5
      [] pc = "checksum" -> TopRank + 4
      [] pc = "program" -> TopRank + 3
      [] pc = "identify" ->
            TopRank + (IF rom_start = \hF000 /\ cur_seg >= \hE000 THEN 2 ELSE 1)
      [] pc = "geometry" -> 3 + 2 * NumPages
      [] pc = "erase" -> 2 + 2 * (NumPages - page)
      [] pc = "write" -> 1 + 2 * (NumPages - page)
      [] pc = "finish" -> 2
      [] pc = "verify" -> 1
      [] OTHER -> 0

\* the polls of the erase or program step made last
PollsOfStep == {bus[i].val : i \in BusAt("poll")}

\* the polls of the step made last stay within the largest budget, and
\* rom_identify has been called at most twice
StepsBounded ==
    /\ AfterCommand => \A n \in PollsOfStep : n <= ERASE_TIMEOUT
    /\ Len(StepsOf("identify")) <= 2

\* C21: termination. Whatever the device does (bytes that never latch,
\* erases that never complete, identification that never answers), and
\* given that each delay call returns, every run comes to its end: each
\* step of the program strictly lowers a count of the steps left that never
\* goes below zero and is zero only when the run is over; rom_identify is
\* called at most twice, every erase and program step returns after at
\* most its budget of polls, and the page loop leaves after num_pages pages.
C21_Terminates ==
    [][/\ Rank' < Rank
       /\ Rank' >= 0
       /\ (Rank' = 0) = Terminated'
       /\ StepsBounded']_vars

\* a run came to its end on a device whose erases and writes never complete
\* within the polls
C21_Witness ==
    /\ pc = "done" /\ "p" \in mode
    /\ dev.lat >= ERASE_TIMEOUT
    /\ \E k \in 1..Len(hist) : hist[k].step = "erase" /\ hist[k].ret = 1
    /\ \E k \in 1..Len(hist) : hist[k].step = "program" /\ hist[k].ret = 1


\* rom_verify has run
Verified == "v" \in mode /\ pc = "done"

\* the byte read at distance o from the start of the ROM region, and the
\* byte of the file at that distance, addressed by paragraph
RomByteAt(o) == ReadByte(flash, idmode, SegAdd(rom_seg, o \div PARAGRAPH), o % PARAGRAPH)
FileByteAt(o) == FileByte(o)

\* the offsets of [0, rom_size) at which the ROM and the file differ
Differing == {o \in 0..(rom_size - 1) : RomByteAt(o) # FileByteAt(o)}

\* C22: rom_verify compares every offset of [0, rom_size) exactly once,
\* also across 64 KiB chunk boundaries: its difference count is the number
\* of offsets at which the ROM byte differs from the file byte. It reports
\* "No differences found" if and only if that count is zero, and it never
\* aborts the program: the run ends with exit code 0 whatever the count.
C22_Verify ==
    Verified =>
        /\ diff = Cardinality(Differing)
        /\ Printed("No differences found") <=> diff = 0
        /\ Printed("differences found") <=> diff > 0
        /\ exit_code = 0

\* an image of more than 64 KiB was verified and differences were counted
\* in its second chunk
C22_Witness ==
    /\ Verified /\ rom_size > \h10000 /\ diff > 0
    /\ \E o \in {\h10000, rom_size - 1} : RomByteAt(o) # FileByteAt(o)


\* the result r of a call of rom_identify is that of the call made last:
\* the same index, the same command-address pair, the same ids read
SameProfile(r) ==
    /\ r.index = Last.ret
    /\ r.cmd_addr1 = Last.a1 /\ r.cmd_addr2 = Last.a2
    /\ r.cmd_addr1 = cmd_addr1 /\ r.cmd_addr2 = cmd_addr2

\* C23: identification is idempotent. When rom_identify has returned, a
\* second call at the same window, with nothing changed in between,
\* returns the same registry index and leaves the same command-address
\* pair selected, and the device in the mode the first call left it in:
\* normal read mode whenever the exit sequence reached the device through
\* its own command addresses.
C23_Idempotent ==
    AfterIdentify =>
        /\ SameProfile(rom_identify(flash, idmode, Last.seg))
        /\ rom_identify(flash, idmode, Last.seg).idmode = idmode
        /\ Last.ret # -1 => ~idmode

\* rom_identify returned a registry index after it had escalated to the
\* second pair of command addresses
C23_Witness ==
    /\ AfterIdentify /\ ~idmode /\ Last.ret # -1
    /\ <<cmd_addr1, cmd_addr2>> = PAIR_555
    /\ SameProfile(rom_identify(flash, idmode, Last.seg))

\* the clock read the same value before and after the calibration loop
ZeroElapsed == end_time = start_time

\* C24: calibration fails instead of dividing by zero. When the elapsed
\* time is zero, calibrate_delay forms no quotient: it reports a
\* calibration failure and the run ends there, before any access to the
\* device.
C24_CalibrationFails ==
    (ZeroElapsed /\ pc # "calibrate") =>
        /\ pc = "exit"
        /\ exit_code > 0
        /\ StepsOf("calibrate") = <<>>
        /\ StepsOf("identify") = <<>>
        /\ bus = <<>>

\* the quotient was formed with a zero divisor, the run went on with what
\* the division left in loops_per_1ms and has written pages of the device
C24_DividesByZero ==
    /\ ZeroElapsed
    /\ StepsOf("calibrate") # <<>>
    /\ StepsOf("calibrate")[1].n = 0
    /\ StepsOf("calibrate")[1].ret = loops_per_1ms
    /\ StepsOf("program") # <<>>
    /\ exit_code = -1

\* the erase and program steps of the page loop recorded so far
PageLoopSteps == SelectSeq(hist, LAMBDA h : h.step \in {"erase", "program"})

\* C30: in the rom_program of version 0.2 the product page_size * page,
\* used as ROM offset and as buffer offset, is the true byte offset of the
\* page for every page below num_pages: it does not wrap modulo 65536, and
\* no two pages of one image go to the same ROM address.
C30_OffsetNeverWraps ==
    \A j, k \in 1..Len(PageLoopSteps) :
        /\ PageLoopSteps[k].n = PageSize * PageLoopSteps[k].page
        /\ (PageLoopSteps[j].page # PageLoopSteps[k].page
                => PageLoopSteps[j].n # PageLoopSteps[k].n)

\* a 128 KiB image was programmed to its end, and the page in the middle of
\* it went to the ROM address, and took the bytes, of the first page
C30_SecondHalfOverFirst ==
    /\ pc = "verify"
    /\ rom_size = 131072
    /\ \E j, k \in 1..Len(PageLoopSteps) :
          /\ PageLoopSteps[j].step = "program" /\ PageLoopSteps[k].step = "program"
          /\ PageLoopSteps[j].page = 0
          /\ PageLoopSteps[k].page * PageSize = UINT_MOD
          /\ PageLoopSteps[k].n = 0
          /\ PageLoopSteps[j].seg = PageLoopSteps[k].seg

\* the 16-bit count pit_delay takes
FitsPitCount(ticks) == ticks >= 0 /\ ticks < 65536

\* the tick counts of the delay records of the step made last
DelayTicks == {bus[i].val : i \in BusAt("delay")}

\* C25: no under-delay in the tick-counting clock. The count rom_identify
\* passes to pit_delay is at least 10 ms worth of ticks
\* (IDENTIFY_DELAY * 100 >= TICKS_PER_SEC), the count the poll loops pass
\* is at least 50 microseconds worth (WRITE_DELAY * 20000 >= TICKS_PER_SEC),
\* and both fit the 16-bit count of pit_delay.
C25_NoUnderDelay ==
    /\ AfterIdentify =>
          \A t \in DelayTicks : t * 100 >= TICKS_PER_SEC /\ FitsPitCount(t)
    /\ (AfterErase \/ AfterProgram) =>
          \A t \in DelayTicks :
              t > 0 => /\ t % WRITE_DELAY = 0
                       /\ WRITE_DELAY * 20000 >= TICKS_PER_SEC
                       /\ FitsPitCount(WRITE_DELAY)

\* rom_identify and a poll loop that did not match at once have both
\* called pit_delay, each with a count that fits 16 bits and is the
\* requested duration rounded down to a whole tick: less than the duration,
\* by less than one tick
C25_RoundedDown ==
    /\ AfterErase
    /\ \E t \in DelayTicks : t > 0 /\ t % WRITE_DELAY = 0
    /\ \E k \in 1..Len(hist) : hist[k].step = "identify"
    /\ FitsPitCount(IDENTIFY_DELAY) /\ FitsPitCount(WRITE_DELAY)
    /\ IDENTIFY_DELAY * 100 < TICKS_PER_SEC
    /\ (IDENTIFY_DELAY + 1) * 100 > TICKS_PER_SEC
    /\ WRITE_DELAY * 20000 < TICKS_PER_SEC
    /\ (WRITE_DELAY + 1) * 20000 > TICKS_PER_SEC

\* the registry entries whose ids are the pair rom_identify read last
Candidates ==
    {i \in DOMAIN eeproms : /\ eeproms[i].vendor_id = Last.id[1]
                            /\ eeproms[i].device_id = Last.id[2]}

\* C26: the registry is well formed. The page size of every entry of
\* eeproms is a power of two that divides 65536, and no two entries share
\* the pair (vendor_id, device_id): whatever rom_identify read, the lookup
\* has at most one candidate, and the index returned is that candidate.
C26_RegistryWellFormed ==
    /\ DOMAIN eeproms = 0..(NUM_DEVICES - 1)
    /\ \A i \in DOMAIN eeproms :
          /\ \E e \in 0..16 : eeproms[i].page_size = 2^e
          /\ 65536 % eeproms[i].page_size = 0
    /\ \A i, j \in DOMAIN eeproms :
          (/\ eeproms[i].vendor_id = eeproms[j].vendor_id
           /\ eeproms[i].device_id = eeproms[j].device_id) => i = j
    /\ AfterIdentify =>
          /\ Cardinality(Candidates) <= 1
          /\ Last.ret # -1 => Candidates = {Last.ret}

\* rom_identify found the entry that shares its vendor id with another
\* entry, told apart by the device id
C26_Witness ==
    /\ AfterIdentify
    /\ Last.ret = 4
    /\ Candidates = {4}
    /\ eeproms[3].vendor_id = Last.id[1]
    /\ eeproms[3].device_id # Last.id[2]

\* paragraphs of a 64 KiB window
WINDOW_PARAGRAPHS == 65536 \div PARAGRAPH

\* the segments of the command writes of the erase or program step made last
CommandSegs == {bus[i].seg : i \in {i \in 1..Len(bus) : i <= 3 /\ bus[i].op = "w"}}

\* C27 as stated: the window base used for identification and for every
\* erase and program command write is aligned to the 64 KiB window size,
\* for every ROM segment the command line accepts.
C27_WindowAligned ==
    /\ \A k \in 1..Len(hist) :
          hist[k].step = "identify" => hist[k].seg % WINDOW_PARAGRAPHS = 0
    /\ (AfterErase \/ AfterProgram) =>
          \A sg \in CommandSegs : sg % WINDOW_PARAGRAPHS = 0

\* C27, holding: for an accepted ROM segment at or above 0xE000 the window
\* base is 0xF000 or 0xE000, aligned to 64 KiB; for an accepted segment
\* below 0xE000 it is the ROM segment itself, aligned only when that
\* segment is. Identification and the command writes of every erase and
\* program step go to that window base.
C27_WindowBase ==
    /\ \A k \in 1..Len(hist) :
          hist[k].step = "identify" =>
              /\ rom_seg < \hE000 => hist[k].seg = rom_seg
              /\ rom_seg >= \hE000 =>
                    /\ hist[k].seg \in {\hF000, \hE000}
                    /\ hist[k].seg % WINDOW_PARAGRAPHS = 0
    /\ (AfterErase \/ AfterProgram) =>
          /\ CommandSegs = {rom_start}
          /\ rom_start = StepsOf("identify")[Len(StepsOf("identify"))].seg

\* a page was programmed through a window base that is the ROM segment
\* given with -a and is not aligned to 64 KiB
C27_Witness ==
    /\ AfterProgram
    /\ Last.ret = 0
    /\ rom_seg = opt_a
    /\ rom_start = rom_seg
    /\ rom_start % WINDOW_PARAGRAPHS # 0
    /\ CommandSegs = {rom_start}

\* the image sizes with a default origin of their own, and that origin
DefaultOrigin ==
    (24576 :> \hFA00) @@ (32768 :> \hF800) @@ (65536 :> \hF000) @@ (131072 :> \hE000)

\* the image file was loaded without an -a option
LoadedByDefault ==
    /\ opt_a = -1
    /\ NeedsFile(mode)
    /\ pc \notin {"args", "read", "load"}

\* C28: the default origin follows the image size. Without -a, a 24 KiB
\* image is programmed and verified from segment FA00, a 32 KiB image from
\* F800, a 64 KiB image from F000 and a 128 KiB image from E000, and in
\* each case the image ends at the top of the first megabyte:
\* 16 * rom_seg + rom_size = 0x100000.
C28_DefaultOrigin ==
    (LoadedByDefault /\ file_size \in DOMAIN DefaultOrigin) =>
        /\ rom_size = file_size
        /\ rom_seg = DefaultOrigin[file_size]
        /\ PARAGRAPH * rom_seg + rom_size = LINEAR_MOD
        /\ \A k \in 1..Len(hist) :
              hist[k].step \in {"erase", "program"} =>
                  hist[k].seg = SegAdd(DefaultOrigin[file_size],
                                       hist[k].page * (PageSize \div PARAGRAPH))
        /\ Verified =>
              diff = rom_verify(flash, idmode, DefaultOrigin[file_size], file_seg, file_size)

\* a 24 KiB image given without -a was programmed from FA00 to the last
\* byte below 1 MiB and verified from FA00
C28_Witness ==
    /\ LoadedByDefault
    /\ file_size = 24576
    /\ rom_seg = \hFA00
    /\ Verified
    /\ diff = 0
    /\ \E k \in 1..Len(hist) : /\ hist[k].step = "program" /\ hist[k].page = 0
                               /\ hist[k].seg = \hFA00
    /\ Last.step = "program"
    /\ PARAGRAPH * Last.seg + PageSize = LINEAR_MOD

\* the last byte of the loaded image lies beyond the first megabyte
LastByteBeyond == rom_seg + ((rom_size + PARAGRAPH - 1) \div PARAGRAPH) - 1 > \hFFFF

\* the image file was loaded and main went past its 1 MiB check
PastBoundCheck == NeedsFile(mode) /\ pc \notin {"args", "read", "load"}

\* C29: the 1 MiB bound check of main rejects every loaded image whose
\* last byte lies beyond the first megabyte: with
\* rom_seg + ceil(rom_size / 16) - 1 > 0xFFFF the run ends with the error
\* before any checksum, programming or verification.
C29_BeyondRejected ==
    (PastBoundCheck /\ LastByteBeyond) =>
        /\ pc = "exit"
        /\ exit_code = 1
        /\ Printed("ROM image extends beyond 1 MiB")
        /\ \A k \in 1..Len(hist) : hist[k].step = "read"
        /\ diff = -1

\* an image whose last byte lies beyond the first megabyte passed the
\* check without the error, and a page of it was programmed at a segment
\* that wrapped around to the bottom of memory
C29_ProgramsBeyond ==
    /\ PastBoundCheck /\ LastByteBeyond
    /\ ~Printed("ROM image extends beyond 1 MiB")
    /\ ~BeyondCheck(rom_seg, rom_size)
    /\ AfterProgram
    /\ Last.seg < rom_seg
    /\ Last.seg = SegAdd(rom_seg, Last.page * (PageSize \div PARAGRAPH))

\* the calls of rom_identify made so far, in order
Probes == StepsOf("identify")

\* C31: the command window of every erase and program step is the window
\* at which identification succeeded. For a target segment of 0xE000 or
\* above, 0xF000 is probed first and 0xE000 only after the probe at 0xF000
\* returned -1; for a target segment below 0xE000 the target segment itself
\* is the only window probed.
C31_WindowIdentified ==
    /\ Probes # <<>> =>
          /\ rom_seg >= \hE000 =>
                /\ Len(Probes) <= 2
                /\ Probes[1].seg = \hF000
                /\ Len(Probes) = 2 => Probes[1].ret = -1 /\ Probes[2].seg = \hE000
          /\ rom_seg < \hE000 => Len(Probes) = 1 /\ Probes[1].seg = rom_seg
    /\ \A k \in 1..Len(hist) :
          hist[k].step \in {"erase", "program"} =>
              /\ Probes # <<>>
              /\ Probes[Len(Probes)].ret # -1
              /\ Probes[Len(Probes)].ret = eeprom_index
              /\ Probes[Len(Probes)].seg = rom_start
    /\ (AfterErase \/ AfterProgram) =>
          \A i \in 1..Len(bus) :
              (bus[i].op = "w" /\ bus[i].off \in {cmd_addr1, cmd_addr2}
                  /\ bus[i].val \in {\hAA, \h55, \h80, \hA0}) => bus[i].seg = rom_start

\* the probe at 0xF000 returned -1, the probe at 0xE000 found the chip, and
\* a page was programmed through the command window 0xE000
C31_Witness ==
    /\ AfterProgram
    /\ Len(Probes) = 2
    /\ Probes[1].seg = \hF000 /\ Probes[1].ret = -1
    /\ Probes[2].seg = \hE000 /\ Probes[2].ret # -1
    /\ rom_start = \hE000
    /\ bus[1] = W(\hE000, cmd_addr1, \hAA)
    /\ Last.ret = 0

\* C32: identification is a critical section. In rom_identify every
\* command write, from the first write of the primary entry sequence to the
\* last write of the exit sequence, is made with interrupts disabled:
\* interrupts_disable() comes once, right before the first write, and
\* interrupts_enable() once, after the last write and before the return,
\* on every path.
C32_IdentifyCritical ==
    AfterIdentify =>
        /\ pc \in {"identify", "geometry", "exit"} => intr
        /\ Cardinality(BusAt("cli")) = 1
        /\ BusAt("sti") = {Len(bus)}
        /\ \A c \in BusAt("cli") :
              /\ \A i \in 1..(c - 1) : bus[i].op = "r"
              /\ bus[c + 1] = W(Last.seg, PAIR_5555[1], \hAA)
              /\ \A i \in BusAt("w") : c < i /\ i < Len(bus)
        /\ \E x \in BusAt("w") :
              /\ bus[x] = W(Last.seg, cmd_addr1, \hF0)
              /\ \A i \in BusAt("w") : i <= x
              /\ \A i \in (x + 1)..Len(bus) : bus[i].op \in {"delay", "sti"}

\* rom_identify went through all three entry sequences and the exit
\* sequence, 18 command writes, and returned -1 with interrupts enabled,
\* before the probe of the next window
C32_Witness ==
    /\ AfterIdentify
    /\ Last.ret = -1
    /\ Cardinality(BusAt("w")) = 18
    /\ Cardinality(BusAt("cli")) = 1
    /\ bus[Len(bus)] = Sti
    /\ pc = "identify"
    /\ intr

\* the chip is a registry device that enters software-ID mode on the
\* primary entry sequence, and the window probed last is one it is mapped at
EntersOnPrimary ==
    /\ dev.chip \in DOMAIN eeproms
    /\ dev.entry = "primary"
    /\ dev.pair = PAIR_5555
    /\ Last.seg \in dev.segs

\* C33: a registry device that enters software-ID mode on the primary
\* entry sequence is always identified. rom_identify returns its registry
\* index whatever bytes the device holds at offsets 0 and 1 of the window
\* in normal read mode, bytes equal to its own ids included.
C33_AlwaysIdentified ==
    (AfterIdentify /\ EntersOnPrimary) => Last.ret = dev.chip

\* the device holds its own vendor and device id at offsets 0 and 1; the
\* ids read in software-ID mode equal the baseline, all three entry
\* sequences were written, and rom_identify returned -1 for a chip of the
\* registry
C33_MaskedByData ==
    /\ AfterIdentify /\ EntersOnPrimary
    /\ Len(Probes) = 1
    /\ dev.resting = ChipId(dev.chip)
    /\ <<Last.id[1], Last.id[2]>> = ChipId(dev.chip)
    /\ <<Last.id[3], Last.id[4]>> = ChipId(dev.chip)
    /\ Cardinality(BusAt("w")) = 18
    /\ Last.ret = -1

\* the linear addresses of the target region, as a plain interval
InTarget(a) == PARAGRAPH * rom_seg <= a /\ a < PARAGRAPH * rom_seg + rom_size

\* the writes on the bus of the step made last, apart from its data burst
StepWrites == {bus[i] : i \in BusAt("w")}

\* write w is a command byte at a command address of the command window
IsCommandWrite(w) ==
    /\ w.seg = rom_start
    /\ w.off \in {cmd_addr1, cmd_addr2}
    /\ w.val \in {\hAA, \h55, \h80, \hA0}

\* write w is the erase command at the first byte of the page of the step
\* made last, a page of the target region
IsPageErase(w) ==
    /\ w.val = \h30 /\ w.off = 0 /\ w.seg = Last.seg
    /\ Linear(w.seg, 0) = PARAGRAPH * rom_seg + Last.page * PageSize
    /\ InTarget(Linear(w.seg, 0))

\* C34: the write footprint of rom_program. Every write of the batch is a
\* command byte at cmd_addr1 or cmd_addr2 of the command window, the erase
\* command 0x30 at the first byte of a target page, or a data byte at a
\* linear address in [16 * rom_seg, 16 * rom_seg + rom_size): no data byte
\* is written outside the target region.
C34_WriteFootprint ==
    /\ (AfterErase \/ AfterProgram) =>
          \A w \in StepWrites : IsCommandWrite(w) \/ IsPageErase(w)
    /\ \A k \in 1..Len(DataWrites) :
          DataWrites[k].n > 0 =>
              /\ InTarget(Linear(DataWrites[k].seg, 0))
              /\ InTarget(Linear(DataWrites[k].seg, DataWrites[k].n - 1))

\* the image extends beyond the first megabyte, and the data bytes of a
\* page were written at the bottom of memory, below the target region
C34_WritesBelowTarget ==
    /\ AfterProgram
    /\ ~FitsBelow1MiB
    /\ Last.page > 0
    /\ DataWrites[Len(DataWrites)].seg = Last.seg
    /\ DataWrites[Len(DataWrites)].n = PageSize
    /\ Linear(Last.seg, 0) < PARAGRAPH * rom_seg
    /\ ~InTarget(Linear(Last.seg, 0))
    /\ InRam(Linear(Last.seg, 0))

\* the place of a printed message in the order read, checksum, program, verify
OutRank(msg) ==
    CASE msg = "Saving ROM content" -> 1
      [] msg \in {"Current ROM checksum", "The checksum of the file"} -> 2
      [] msg \in {"differences found", "No differences found"} -> 4
      [] OTHER -> 3

\* the place of a recorded step in the same order
StepRank(h) ==
    CASE h.step = "read" -> 1
      [] h.step = "checksum" -> 2
      [] OTHER -> 3

\* C35: the modes of one run are executed in the order read, checksum,
\* program, verify: the messages and the recorded steps appear in that order,
\* each of read and checksum at most once; when the ROM has been saved or
\* summed and nothing else has happened yet, no command has been written to
\* the chip and its content is untouched; and a run that programs and verifies
\* compares the file with the memory the finished batch left, with interrupts
\* enabled again
C35_ModeOrder ==
    /\ \A i, j \in DOMAIN out : i < j => OutRank(out[i]) <= OutRank(out[j])
    /\ \A i, j \in DOMAIN hist : i < j => StepRank(hist[i]) <= StepRank(hist[j])
    /\ Len(StepsOf("read")) <= 1
    /\ ("r" \in mode /\ pc \notin {"args", "read", "exit"}) => Len(StepsOf("read")) = 1
    /\ ("c" \in mode /\ pc \notin {"args", "read", "load", "checksum", "exit"}) =>
          Len(StepsOf("checksum")) = 1
    /\ Len(StepsOf("checksum")) <= 1
    /\ (Len(hist) > 0 /\ StepRank(hist[Len(hist)]) < 3) =>
          /\ BusAt("w") = {}
          /\ flash = <<>>
    /\ ("p" \in mode /\ Verified) =>
          /\ Printed("Flash ROM has been programmed successfully")
          /\ intr
          /\ OutRank(out[Len(out)]) = 4
          /\ OutRank(out[Len(out) - 1]) = 3
          /\ diff = rom_verify(flash, idmode, rom_seg, file_seg, rom_size)

\* a run with all four modes has saved, summed, programmed and verified
C35_Witness ==
    /\ mode = {"r", "c", "p", "v"}
    /\ pc = "done"
    /\ out = <<"Saving ROM content", "The checksum of the file",
               "Programming the flash ROM",
               "Flash ROM has been programmed successfully", "No differences found">>
    /\ hist[1].step = "read"
    /\ hist[2].step = "checksum"
    /\ hist[3].step = "identify"
    /\ BusAt("w") # {}
    /\ flash # <<>>

\* the run saves the ROM and programs it, and programming has begun
SavedThenProgrammed ==
    /\ "r" \in mode
    /\ "p" \in mode
    /\ Len(StepsOf("read")) = 1
    /\ Len(StepsOf("program")) > 0

\* the linear address a is in the region rom_read saved
Saved(a) ==
    /\ a >= PARAGRAPH * StepsOf("read")[1].seg
    /\ a < PARAGRAPH * StepsOf("read")[1].seg + StepsOf("read")[1].n

\* C36: in a run with -r and -p the region rom_read saved, its start segment
\* and its byte count, is the region rom_program is given to overwrite
C36_SavedRegionProgrammed ==
    SavedThenProgrammed =>
        /\ StepsOf("read")[1].seg = rom_seg
        /\ StepsOf("read")[1].n = rom_size

\* a 64 KiB image without -a: 32 KiB at F800 were saved, and page 0 of the
\* image has been written at F000:0000, outside the saved region
C36_OverwrittenUnsaved ==
    /\ SavedThenProgrammed
    /\ opt_a = -1
    /\ opt_s = -1
    /\ file_size = 65536
    /\ StepsOf("read")[1].seg = \hF800
    /\ StepsOf("read")[1].n = DEFAULT_ROM_SIZE
    /\ rom_seg = \hF000
    /\ rom_size = 65536
    /\ AfterProgram
    /\ Last.page = 0
    /\ Last.ret = 0
    /\ Last.seg = \hF000
    /\ \E k \in DOMAIN DataWrites :
          /\ DataWrites[k].n > 0
          /\ DataWrites[k].taken
          /\ ~Saved(Linear(DataWrites[k].seg, 0))
          /\ ~Saved(Linear(DataWrites[k].seg, DataWrites[k].n - 1))

\* the image file was loaded in a run with an accepted -a option
LoadedWithSegment ==
    /\ opt_a # -1
    /\ opt_a >= \hC000
    /\ NeedsFile(mode)
    /\ pc \notin {"args", "read", "load"}

\* C37: a segment given with -a is the segment programmed and verified,
\* whatever the image size: rom_seg stays the -a value after the file is
\* loaded, every page is erased and programmed at its place from that
\* segment, and the verification compares from that segment
C37_ExplicitSegmentUsed ==
    LoadedWithSegment =>
        /\ rom_seg = opt_a
        /\ \A k \in 1..Len(hist) :
              hist[k].step \in {"erase", "program"} =>
                  hist[k].seg = SegAdd(opt_a, hist[k].page * (PageSize \div PARAGRAPH))
        /\ Verified => diff = rom_verify(flash, idmode, opt_a, file_seg, file_size)

\* -a F800 with a 24 KiB image: the image was programmed and verified from
\* FA00, and nothing was written at F800:0000
C37_ExplicitSegmentReplaced ==
    /\ LoadedWithSegment
    /\ opt_a = \hF800
    /\ file_size = 24576
    /\ rom_seg = \hFA00
    /\ Verified
    /\ diff = 0
    /\ StepsOf("program")[1].page = 0
    /\ StepsOf("program")[1].seg = \hFA00
    /\ \A k \in DOMAIN DataWrites : Linear(DataWrites[k].seg, 0) >= PARAGRAPH * \hFA00
    /\ ReadByte(flash, idmode, \hF800, 0) = ReadByte(<<>>, FALSE, \hF800, 0)

\* the step made last is the checksum
AfterChecksum == Len(hist) > 0 /\ hist[Len(hist)].step = "checksum"

\* the segment the checksum started from
ChecksumSeg == IF NeedsFile(mode) THEN Last.fseg ELSE Last.seg

\* the byte at distance o from the start of the summed region: of the file,
\* or of the ROM addressed by paragraph
RegionByte(o) ==
    IF NeedsFile(mode) THEN FileByteAt(o)
    ELSE ReadByte(flash, idmode, SegAdd(Last.seg, o \div PARAGRAPH), o % PARAGRAPH)

\* the bytes at the distances lo .. hi - 1 added up, without truncation
RECURSIVE ByteSum(_, _)
ByteSum(lo, hi) ==
    IF hi <= lo THEN 0
    ELSE IF hi = lo + 1 THEN RegionByte(lo)
    ELSE ByteSum(lo, (lo + hi) \div 2) + ByteSum((lo + hi) \div 2, hi)

\* C38: the chunked checksum is the sum of all rom_size bytes of the region
\* modulo 2^16, and its chunks tile [0, rom_size): chunk k starts 32 KiB * (k - 1)
\* bytes after the start of the region, every chunk but the last is 32 KiB
\* long, and the lengths add up to rom_size
C38_ChecksumIsByteSum ==
    AfterChecksum =>
        /\ Last.n = rom_size
        /\ Last.ret = ByteSum(0, rom_size) % UINT_MOD
        /\ Len(ChecksumChunks(ChecksumSeg, rom_size)) = (rom_size + \h7FFF) \div \h8000
        /\ \A k \in DOMAIN ChecksumChunks(ChecksumSeg, rom_size) :
              /\ Linear(ChecksumChunks(ChecksumSeg, rom_size)[k].seg, 0)
                    = Linear(ChecksumSeg, 0 + \h8000 * (k - 1))
              /\ ChecksumChunks(ChecksumSeg, rom_size)[k].n
                    = Min(\h8000, rom_size - \h8000 * (k - 1))

\* the checksum of an 80 KiB ROM region from E000: three chunks, the last
\* of 16 KiB, and a sum above 2^16 before truncation
C38_Witness ==
    /\ AfterChecksum
    /\ mode = {"c"}
    /\ opt_a = \hE000
    /\ rom_size = 81920
    /\ Len(ChecksumChunks(Last.seg, rom_size)) = 3
    /\ ChecksumChunks(Last.seg, rom_size)[3] = [seg |-> \hF000, n |-> 16384]
    /\ ByteSum(0, rom_size) >= UINT_MOD
    /\ Last.ret = ByteSum(0, rom_size) % UINT_MOD
    /\ pc = "program"

=============================================================================
